---- MODULE Spec2Model ----
(***************************************************************************)
(* The operation-log engine of fuzzynote: the event order (checkEquality), *)
(* merge, the projection of an event log into the doubly linked list       *)
(* (processEventLog / Replay), the integrity check and compaction.         *)
(*                                                                         *)
(* Pointers are indices into the sequence r.items (the heap of ListItem    *)
(* objects, in allocation order); 0 is nil.  A []byte note is a tuple:     *)
(* << >> is nil, <<s>> is the non-nil note with bytes s.                   *)
(***************************************************************************)
EXTENDS Integers, Sequences, FiniteSets, TLC

VARIABLES
    repo,   \* the DBListRepo of this replica
    peer,   \* a second replica's DBListRepo, fed the same events
    wal1,   \* an input log (merge's first parameter, compact's wal)
    wal2,   \* an input log (merge's second parameter, Replay's partialWal)
    wal3,   \* a third input log
    res,    \* what an operation returned
    pc,     \* which step comes next
    now     \* the last reading of this replica's wall clock

vars == <<repo, peer, wal1, wal2, wal3, res, pc, now>>

(***************************************************************************)
(* Bounds.                                                                 *)
(***************************************************************************)
\* replica ids (EventLog.UUID) range over 1..MaxUUID
MaxUUID == 2
\* Lamport timestamps of the logs given to merge range over 1..MaxLamport
MaxLamport == 3
\* longest log given to merge
MaxWalLen == 3
\* Lamport timestamps of the events given to Replay range over 1..MaxReplayLamport
MaxReplayLamport == 2
\* most events a replica replays in one run
MaxEvents == 3

(***************************************************************************)
(* EventType, and the results of checkEquality.                            *)
(***************************************************************************)
NullEvent == 0
AddEvent == 1
UpdateEvent == 2
MoveUpEvent == 3
MoveDownEvent == 4
ShowEvent == 5
HideEvent == 6
DeleteEvent == 7

eventsEqual == 0
leftEventOlder == 1
rightEventOlder == 2

NilNote == << >>

\* LineFriends{} : the zero value
NoFriends == [IsProcessed |-> FALSE, Offset |-> 0, Emails |-> {}]

\* the key of the absent target
NullKey == "0:0"

\* EventLog
Ev(uuid, lamport, type, key, target, line, note) ==
    [UUID |-> uuid, LamportTimestamp |-> lamport, EventType |-> type,
     ListItemKey |-> key, TargetListItemKey |-> target,
     Line |-> line, Note |-> note, Friends |-> NoFriends]

\* EventLog{} : the zero value
EmptyEventLog == Ev(0, 0, NullEvent, "", "", "", NilNote)

\* EventLog.key: "<UUID>:<LamportTimestamp>", one string per pair
EventKey(e) == <<e.UUID, e.LamportTimestamp>>

(***************************************************************************)
(* checkEquality                                                           *)
(***************************************************************************)
\* a bug checkEquality could have: the tie on the Lamport timestamp is not
\* broken by the replica id
checkEqualityLamportOnly(event1, event2) ==
    IF event1.LamportTimestamp < event2.LamportTimestamp
    THEN leftEventOlder
    ELSE IF event2.LamportTimestamp < event1.LamportTimestamp
         THEN rightEventOlder
         ELSE eventsEqual

checkEquality(event1, event2) ==
    IF \/ event1.LamportTimestamp < event2.LamportTimestamp
       \/ /\ event1.LamportTimestamp = event2.LamportTimestamp
          /\ event1.UUID < event2.UUID
    THEN leftEventOlder
    ELSE IF \/ event2.LamportTimestamp < event1.LamportTimestamp
            \/ /\ event2.LamportTimestamp = event1.LamportTimestamp
               /\ event2.UUID < event1.UUID
         THEN rightEventOlder
         ELSE eventsEqual

(***************************************************************************)
(* merge                                                                   *)
(***************************************************************************)
\* append e unless it equals the last event of mergedEl
AppendUnlessLast(mergedEl, e) ==
    IF Len(mergedEl) = 0
       \/ checkEquality(e, mergedEl[Len(mergedEl)]) # eventsEqual
    THEN Append(mergedEl, e)
    ELSE mergedEl

\* the two pointer loop; i and j are the 1-based positions of the next events
RECURSIVE mergeLoop(_, _, _, _, _)
mergeLoop(w1, w2, i, j, mergedEl) ==
    IF ~(i <= Len(w1) \/ j <= Len(w2))
    THEN mergedEl
    ELSE IF i = Len(w1) + 1
    THEN mergeLoop(w1, w2, i, j + 1, AppendUnlessLast(mergedEl, w2[j]))
    ELSE IF j = Len(w2) + 1
    THEN mergeLoop(w1, w2, i + 1, j, AppendUnlessLast(mergedEl, w1[i]))
    ELSE LET c == checkEquality(w1[i], w2[j])
         IN IF c = leftEventOlder
            THEN mergeLoop(w1, w2, i + 1, j, AppendUnlessLast(mergedEl, w1[i]))
            ELSE IF c = rightEventOlder
            THEN mergeLoop(w1, w2, i, j + 1, AppendUnlessLast(mergedEl, w2[j]))
            ELSE mergeLoop(w1, w2, i + 1, j, mergedEl)

\* a bug merge could have: the first fast path concatenates in the wrong order
mergeWrongConcat(w1, w2) ==
    IF Len(w1) = 0 /\ Len(w2) = 0 THEN << >>
    ELSE IF Len(w1) = 0 THEN w2
    ELSE IF Len(w2) = 0 THEN w1
    ELSE IF checkEquality(w1[1], w2[Len(w2)]) = rightEventOlder THEN w1 \o w2
    ELSE IF checkEquality(w2[1], w1[Len(w1)]) = rightEventOlder THEN w1 \o w2
    ELSE mergeLoop(w1, w2, 1, 1, << >>)

\* a bug merge could have: an event of both logs is taken from both
RECURSIVE mergeLoopKeepBoth(_, _, _, _, _)
mergeLoopKeepBoth(w1, w2, i, j, mergedEl) ==
    IF ~(i <= Len(w1) \/ j <= Len(w2))
    THEN mergedEl
    ELSE IF i = Len(w1) + 1
    THEN mergeLoopKeepBoth(w1, w2, i, j + 1, Append(mergedEl, w2[j]))
    ELSE IF j = Len(w2) + 1
    THEN mergeLoopKeepBoth(w1, w2, i + 1, j, Append(mergedEl, w1[i]))
    ELSE IF checkEquality(w1[i], w2[j]) = rightEventOlder
    THEN mergeLoopKeepBoth(w1, w2, i, j + 1, Append(mergedEl, w2[j]))
    ELSE mergeLoopKeepBoth(w1, w2, i + 1, j, Append(mergedEl, w1[i]))

mergeKeepBoth(w1, w2) ==
    IF Len(w1) = 0 /\ Len(w2) = 0 THEN << >>
    ELSE IF Len(w1) = 0 THEN w2
    ELSE IF Len(w2) = 0 THEN w1
    ELSE IF checkEquality(w1[1], w2[Len(w2)]) = rightEventOlder THEN w2 \o w1
    ELSE IF checkEquality(w2[1], w1[Len(w1)]) = rightEventOlder THEN w1 \o w2
    ELSE mergeLoopKeepBoth(w1, w2, 1, 1, << >>)

\* a bug merge could have: an event of both logs is taken from neither
RECURSIVE mergeLoopDropBoth(_, _, _, _, _)
mergeLoopDropBoth(w1, w2, i, j, mergedEl) ==
    IF ~(i <= Len(w1) \/ j <= Len(w2))
    THEN mergedEl
    ELSE IF i = Len(w1) + 1
    THEN mergeLoopDropBoth(w1, w2, i, j + 1, AppendUnlessLast(mergedEl, w2[j]))
    ELSE IF j = Len(w2) + 1
    THEN mergeLoopDropBoth(w1, w2, i + 1, j, AppendUnlessLast(mergedEl, w1[i]))
    ELSE LET c == checkEquality(w1[i], w2[j])
         IN IF c = leftEventOlder
            THEN mergeLoopDropBoth(w1, w2, i + 1, j, AppendUnlessLast(mergedEl, w1[i]))
            ELSE IF c = rightEventOlder
            THEN mergeLoopDropBoth(w1, w2, i, j + 1, AppendUnlessLast(mergedEl, w2[j]))
            ELSE mergeLoopDropBoth(w1, w2, i + 1, j + 1, mergedEl)

mergeDropBoth(w1, w2) ==
    IF Len(w1) = 0 /\ Len(w2) = 0 THEN << >>
    ELSE IF Len(w1) = 0 THEN w2
    ELSE IF Len(w2) = 0 THEN w1
    ELSE IF checkEquality(w1[1], w2[Len(w2)]) = rightEventOlder THEN w2 \o w1
    ELSE IF checkEquality(w2[1], w1[Len(w1)]) = rightEventOlder THEN w1 \o w2
    ELSE mergeLoopDropBoth(w1, w2, 1, 1, << >>)

merge(w1, w2) ==
    IF Len(w1) = 0 /\ Len(w2) = 0 THEN << >>
    ELSE IF Len(w1) = 0 THEN w2
    ELSE IF Len(w2) = 0 THEN w1
    ELSE IF checkEquality(w1[1], w2[Len(w2)]) = rightEventOlder THEN w2 \o w1
    ELSE IF checkEquality(w2[1], w1[Len(w1)]) = rightEventOlder THEN w1 \o w2
    ELSE mergeLoop(w1, w2, 1, 1, << >>)

(***************************************************************************)
(* Sorted, duplicate free logs: the inputs of merge.                       *)
(***************************************************************************)
\* the least event of a non-empty set of events with distinct identities
MinEvent(S) == CHOOSE e \in S : \A f \in S : checkEquality(f, e) # leftEventOlder

\* reorderWal: the events of S in ascending order
RECURSIVE SortedSeq(_)
SortedSeq(S) ==
    IF S = {} THEN << >>
    ELSE LET m == MinEvent(S) IN <<m>> \o SortedSeq(S \ {m})

\* one event per identity: an Add of the item born with that event
MergeEvents ==
    { Ev(u, l, AddEvent, ToString(u) \o ":" \o ToString(l), NullKey, "a", NilNote) :
        u \in 1..MaxUUID, l \in 1..MaxLamport }

SortedWals == { SortedSeq(S) : S \in { T \in SUBSET MergeEvents : Cardinality(T) <= MaxWalLen } }

Range(s) == { s[i] : i \in 1..Len(s) }

Identities(s) == { EventKey(s[i]) : i \in 1..Len(s) }

IsStrictlyIncreasing(s) ==
    \A i \in 1..(Len(s) - 1) : checkEquality(s[i], s[i + 1]) = leftEventOlder

\* the two logs are the same sequence of events, compared by checkEquality
SameEvents(s, t) ==
    /\ Len(s) = Len(t)
    /\ \A i \in 1..Len(s) : checkEquality(s[i], t[i]) = eventsEqual

(***************************************************************************)
(* DBListRepo and ListItem.                                                *)
(***************************************************************************)
\* a ListItem as DBListRepo.add builds it (nil pointers are 0)
NewListItem(key, line, friends, note, childItem) ==
    [key |-> key, child |-> childItem, parent |-> 0, rawLine |-> line,
     Note |-> note, friends |-> friends, IsHidden |-> FALSE,
     isDeleted |-> FALSE, matchChild |-> 0, matchParent |-> 0]

\* a DBListRepo with empty log, tracker and caches, owned by replica uuid
NewRepo(uuid) ==
    [Root |-> 0,
     items |-> << >>,
     matchListItems |-> << >>,
     uuid |-> uuid,
     email |-> "",
     log |-> << >>,
     listItemTracker |-> << >>,
     processedEventLogCache |-> {},
     listItemProcessedEventLogTypeCache |-> << >>,
     processedWalChecksums |-> {},
     eventLogger |-> [log |-> << >>, curIdx |-> 0],
     currentLamportTimestamp |-> 0]

\* r.listItemTracker[key]: nil when the key is absent
Tracked(r, key) ==
    IF key \in DOMAIN r.listItemTracker THEN r.listItemTracker[key] ELSE 0

\* DBListRepo.add: the new item is the last of r.items
add(r, key, line, friends, note, childItem) ==
    LET n == Len(r.items) + 1
        newItem == NewListItem(key, line, friends, note, childItem)
    IN IF childItem = 0
       THEN LET oldRoot == r.Root
            IN IF oldRoot # 0
               THEN [r EXCEPT !.Root = n,
                              !.items = Append([r.items EXCEPT ![oldRoot].child = n],
                                               [newItem EXCEPT !.parent = oldRoot])]
               ELSE [r EXCEPT !.Root = n, !.items = Append(r.items, newItem)]
       ELSE LET p == r.items[childItem].parent
                linked == IF p # 0
                          THEN Append([r.items EXCEPT ![p].child = n],
                                      [newItem EXCEPT !.parent = p])
                          ELSE Append(r.items, newItem)
            IN [r EXCEPT !.items = [linked EXCEPT ![childItem].parent = n]]

\* a bug update could have: an Update with a line writes the note as well and
\* keeps the email of the owner
updateLineAndNote(r, item, line, friends, note) ==
    [r EXCEPT !.items[item] =
        IF line # ""
        THEN [@ EXCEPT !.rawLine = line, !.Note = note,
                       !.friends = [IsProcessed |-> friends.IsProcessed,
                                    Offset |-> friends.Offset,
                                    Emails |-> @.Emails \cup friends.Emails],
                       !.isDeleted = FALSE]
        ELSE [@ EXCEPT !.Note = note, !.isDeleted = FALSE]]

\* DBListRepo.update
update(r, item, line, friends, note) ==
    LET changed ==
            IF line # ""
            THEN [r.items[item] EXCEPT
                    !.rawLine = line,
                    !.friends = [IsProcessed |-> friends.IsProcessed,
                                 Offset |-> friends.Offset,
                                 Emails |-> (r.items[item].friends.Emails
                                             \cup friends.Emails) \ {r.email}]]
            ELSE [r.items[item] EXCEPT !.Note = note]
    IN [r EXCEPT !.items[item] = [changed EXCEPT !.isDeleted = FALSE]]

\* DBListRepo.del
del(r, item) ==
    LET marked == [r.items EXCEPT ![item].isDeleted = TRUE]
        c == marked[item].child
        unlinkedBelow == IF c # 0
                         THEN [marked EXCEPT ![c].parent = marked[item].parent]
                         ELSE marked
        root == IF c # 0 THEN r.Root ELSE marked[item].parent
        p == unlinkedBelow[item].parent
        unlinked == IF p # 0
                    THEN [unlinkedBelow EXCEPT ![p].child = unlinkedBelow[item].child]
                    ELSE unlinkedBelow
    IN [r EXCEPT !.Root = root, !.items = unlinked]

\* DBListRepo.setVisibility
setVisibility(r, item, isVisible) ==
    [r EXCEPT !.items[item].IsHidden = ~isVisible]

\* a bug move could have: the item is re-added without being unlinked first
moveNoDel(r, item, childItem) ==
    LET it == r.items[item]
        r2 == add(r, it.key, it.rawLine, it.friends, it.Note, childItem)
    IN IF it.IsHidden THEN setVisibility(r2, Len(r2.items), FALSE) ELSE r2

\* DBListRepo.move after r.del(item): the item is added again below or above
\* childItem, and hidden again if it was hidden.  The moved item is the last
\* of r.items.
moveDeleted(r, item, childItem) ==
    IF r.items[item].IsHidden
    THEN setVisibility(add(r, r.items[item].key, r.items[item].rawLine,
                           r.items[item].friends, r.items[item].Note, childItem),
                       Len(r.items) + 1, FALSE)
    ELSE add(r, r.items[item].key, r.items[item].rawLine,
             r.items[item].friends, r.items[item].Note, childItem)

\* a bug move could have: the item is added again at the head, whatever the
\* target
moveToRoot(r, item, childItem) == moveDeleted(del(r, item), item, 0)

\* DBListRepo.move
move(r, item, childItem) == moveDeleted(del(r, item), item, childItem)

\* processEventLog from the dispatch on: item and targetItem are nil when
\* absent or deleted.  The result is the repo and the item returned; add and
\* move return the item they allocate, the last of the items.
Dispatch(r, e, item, targetItem) ==
    IF e.EventType = AddEvent
    THEN IF item # 0
         THEN [repo |-> update(update(r, item, e.Line, e.Friends, e.Note),
                               item, "", e.Friends, e.Note),
               item |-> item]
         ELSE [repo |-> add(r, e.ListItemKey, e.Line, e.Friends, e.Note, targetItem),
               item |-> Len(r.items) + 1]
    ELSE IF e.EventType = UpdateEvent
    THEN IF item # 0
         THEN [repo |-> update(r, item, e.Line, e.Friends, e.Note), item |-> item]
         ELSE [repo |-> add(r, e.ListItemKey, e.Line, e.Friends, e.Note, targetItem),
               item |-> Len(r.items) + 1]
    ELSE IF e.EventType = MoveDownEvent /\ targetItem = 0
    THEN [repo |-> r, item |-> 0]
    ELSE IF e.EventType \in {MoveUpEvent, MoveDownEvent}
    THEN [repo |-> move(r, item, targetItem), item |-> Len(r.items) + 1]
    ELSE IF e.EventType = ShowEvent
    THEN [repo |-> setVisibility(r, item, TRUE), item |-> item]
    ELSE IF e.EventType = HideEvent
    THEN [repo |-> setVisibility(r, item, FALSE), item |-> item]
    ELSE IF e.EventType = DeleteEvent
    THEN [repo |-> del(r, item), item |-> item]
    ELSE [repo |-> r, item |-> item]

\* the live item of a key: nil when absent or a tombstone
LiveItem(r, key) ==
    LET i == Tracked(r, key)
    IN IF i # 0 /\ r.items[i].isDeleted THEN 0 ELSE i

\* the end of processEventLog: d is the repo and the item after the dispatch
trackItem(e, d) ==
    IF d.item # 0
    THEN [d.repo EXCEPT !.listItemTracker = (e.ListItemKey :> d.item) @@ @]
    ELSE d.repo

\* a bug processEventLog could have: no orphan check, and an event of any kind
\* on an item that is absent or deleted adds the item, as an Update does
processLiveOrphanAdds(r, e, item, targetItem) ==
    IF item = 0
    THEN trackItem(e, [repo |-> add(r, e.ListItemKey, e.Line, e.Friends, e.Note,
                                    targetItem),
                       item |-> Len(r.items) + 1])
    ELSE trackItem(e, Dispatch(r, e, item, targetItem))

\* a bug processEventLog could have: an Add on a live item adds the item
\* again instead of updating it
processLiveAddsAgain(r, e, item, targetItem) ==
    IF item = 0 /\ e.EventType # AddEvent /\ e.EventType # UpdateEvent
    THEN r
    ELSE IF e.EventType = AddEvent
    THEN trackItem(e, Dispatch(r, e, 0, targetItem))
    ELSE trackItem(e, Dispatch(r, e, item, targetItem))

\* a bug processEventLog could have: a MoveDown without a target moves the
\* item as a MoveUp does
processLiveMoveDownNil(r, e, item, targetItem) ==
    IF item = 0 /\ e.EventType # AddEvent /\ e.EventType # UpdateEvent
    THEN r
    ELSE IF e.EventType = MoveDownEvent /\ targetItem = 0
    THEN trackItem(e, [repo |-> move(r, item, 0), item |-> Len(r.items) + 1])
    ELSE trackItem(e, Dispatch(r, e, item, targetItem))

\* processEventLog from the orphan check on
processLive(r, e, item, targetItem) ==
    IF item = 0 /\ e.EventType # AddEvent /\ e.EventType # UpdateEvent
    THEN r
    ELSE trackItem(e, Dispatch(r, e, item, targetItem))

\* a bug processEventLog could have: no cache of processed events, and the
\* cache per kind and item skips older events only, so an event delivered
\* again is applied again
processEventLogReapply(r, e) ==
    IF /\ <<e.EventType, e.ListItemKey>> \in DOMAIN r.listItemProcessedEventLogTypeCache
       /\ checkEquality(r.listItemProcessedEventLogTypeCache[<<e.EventType, e.ListItemKey>>], e)
                = rightEventOlder
    THEN [r EXCEPT !.processedEventLogCache = @ \cup {EventKey(e)}]
    ELSE processLive(
            [r EXCEPT !.processedEventLogCache = @ \cup {EventKey(e)},
                      !.listItemProcessedEventLogTypeCache =
                            (<<e.EventType, e.ListItemKey>> :> e) @@ @,
                      !.currentLamportTimestamp =
                            IF @ <= e.LamportTimestamp THEN e.LamportTimestamp ELSE @],
            e, LiveItem(r, e.ListItemKey), LiveItem(r, e.TargetListItemKey))

\* a bug processEventLog could have: the cache per kind and item is written
\* but never consulted
processEventLogNoTypeCheck(r, e) ==
    IF EventKey(e) \in r.processedEventLogCache
    THEN r
    ELSE processLive(
            [r EXCEPT !.processedEventLogCache = @ \cup {EventKey(e)},
                      !.listItemProcessedEventLogTypeCache =
                            (<<e.EventType, e.ListItemKey>> :> e) @@ @,
                      !.currentLamportTimestamp =
                            IF @ <= e.LamportTimestamp THEN e.LamportTimestamp ELSE @],
            e, LiveItem(r, e.ListItemKey), LiveItem(r, e.TargetListItemKey))

\* a bug processEventLog could have: the clock is set to the timestamp of the
\* event, also when it is behind the clock
processEventLogClockAssign(r, e) ==
    IF EventKey(e) \in r.processedEventLogCache
    THEN r
    ELSE IF /\ <<e.EventType, e.ListItemKey>> \in DOMAIN r.listItemProcessedEventLogTypeCache
            /\ checkEquality(r.listItemProcessedEventLogTypeCache[<<e.EventType, e.ListItemKey>>], e)
                    \in {rightEventOlder, eventsEqual}
    THEN [r EXCEPT !.processedEventLogCache = @ \cup {EventKey(e)}]
    ELSE processLive(
            [r EXCEPT !.processedEventLogCache = @ \cup {EventKey(e)},
                      !.listItemProcessedEventLogTypeCache =
                            (<<e.EventType, e.ListItemKey>> :> e) @@ @,
                      !.currentLamportTimestamp = e.LamportTimestamp],
            e, LiveItem(r, e.ListItemKey), LiveItem(r, e.TargetListItemKey))

\* DBListRepo.processEventLog(e EventLog)
processEventLog(r, e) ==
    IF EventKey(e) \in r.processedEventLogCache
    THEN r
    ELSE IF /\ <<e.EventType, e.ListItemKey>> \in DOMAIN r.listItemProcessedEventLogTypeCache
            /\ checkEquality(r.listItemProcessedEventLogTypeCache[<<e.EventType, e.ListItemKey>>], e)
                    \in {rightEventOlder, eventsEqual}
    THEN [r EXCEPT !.processedEventLogCache = @ \cup {EventKey(e)}]
    ELSE processLive(
            [r EXCEPT !.processedEventLogCache = @ \cup {EventKey(e)},
                      !.listItemProcessedEventLogTypeCache =
                            (<<e.EventType, e.ListItemKey>> :> e) @@ @,
                      !.currentLamportTimestamp =
                            IF @ <= e.LamportTimestamp THEN e.LamportTimestamp ELSE @],
            e, LiveItem(r, e.ListItemKey), LiveItem(r, e.TargetListItemKey))

\* the loop of Replay: processEventLog on each event in turn
RECURSIVE processAll(_, _)
processAll(r, wal) ==
    IF Len(wal) = 0 THEN r
    ELSE processAll(processEventLog(r, Head(wal)), Tail(wal))

\* DBListRepo.Replay
Replay(r, partialWal) ==
    IF Len(partialWal) = 0
    THEN r
    ELSE [processAll(r, partialWal) EXCEPT !.log = merge(r.log, partialWal)]

(***************************************************************************)
(* The list as a traversal sees it.                                        *)
(***************************************************************************)
\* the items met from item `from` by following parent, at most `fuel` of them
RECURSIVE Chain(_, _, _)
Chain(r, from, fuel) ==
    IF from = 0 \/ fuel = 0 THEN << >>
    ELSE <<from>> \o Chain(r, r.items[from].parent, fuel - 1)

\* the traversal from Root; one item longer than the heap when it cycles
ListOf(r) == Chain(r, r.Root, Len(r.items) + 1)

Terminates(r) == Len(ListOf(r)) <= Len(r.items)

\* what a reader of the list sees of an item
View(r, i) ==
    [key |-> r.items[i].key, rawLine |-> r.items[i].rawLine,
     Note |-> IF r.items[i].Note = NilNote THEN "" ELSE r.items[i].Note[1],
     IsHidden |-> r.items[i].IsHidden]

ViewOf(r) == [n \in 1..Len(ListOf(r)) |-> View(r, ListOf(r)[n])]

\* the live items of the key index
LiveItems(r) ==
    { r.listItemTracker[k] : k \in { q \in DOMAIN r.listItemTracker :
                                        ~r.items[r.listItemTracker[q]].isDeleted } }

Idle == [Root |-> 0]

(***************************************************************************)
(* Match with no search groups, no offset and no limit.                    *)
(***************************************************************************)
\* one round of the loop of Match: the match pointers of cur are cleared; if
\* cur is matched it is appended to r.matchListItems and linked to lastCur
matchItem(r, cur, lastCur, showHidden) ==
    IF ~(showHidden \/ ~r.items[cur].IsHidden)
    THEN [r EXCEPT !.items[cur].matchChild = 0, !.items[cur].matchParent = 0]
    ELSE IF lastCur # 0
    THEN [r EXCEPT !.items[cur].matchParent = 0,
                   !.items[lastCur].matchParent = cur,
                   !.items[cur].matchChild = lastCur,
                   !.matchListItems = Append(@, cur)]
    ELSE [r EXCEPT !.items[cur].matchParent = 0,
                   !.items[cur].matchChild = 0,
                   !.matchListItems = Append(@, cur)]

\* the loop of Match from item cur on; lastCur is the last item matched
RECURSIVE matchLoop(_, _, _, _, _)
matchLoop(r, cur, lastCur, showHidden, fuel) ==
    IF fuel = 0 THEN r
    ELSE IF r.items[cur].parent = 0
    THEN matchItem(r, cur, lastCur, showHidden)
    ELSE matchLoop(matchItem(r, cur, lastCur, showHidden), r.items[cur].parent,
                   IF showHidden \/ ~r.items[cur].IsHidden THEN cur ELSE lastCur,
                   showHidden, fuel - 1)

\* DBListRepo.Match(keys = [], showHidden, "", 0, 0): sets r.matchListItems and
\* the match pointers.  A list that cycles makes the loop run for ever; the
\* model stops it after one round.
Match(r, showHidden) ==
    IF r.Root = 0 THEN [r EXCEPT !.matchListItems = << >>]
    ELSE matchLoop([r EXCEPT !.matchListItems = << >>], r.Root, 0, showHidden,
                   Len(r.items) + 1)

\* the ListItem copies Match returns: taken before the match pointers are set
MatchRes(r) ==
    [n \in 1..Len(r.matchListItems) |->
        [r.items[r.matchListItems[n]] EXCEPT !.matchChild = 0, !.matchParent = 0]]

\* the fields areListItemsEqual compares, of a ListItem value
ItemView(item) ==
    [key |-> item.key, rawLine |-> item.rawLine,
     Note |-> IF item.Note = NilNote THEN "" ELSE item.Note[1],
     IsHidden |-> item.IsHidden]

(***************************************************************************)
(* The integrity check.                                                    *)
(***************************************************************************)
\* checkListItemPtrs(r.Root, matchItems): TRUE when it returns no error.  The
\* loop ends at the item without a parent, which it does not check.
checkListItemPtrs(r, matchItems) ==
    \/ r.Root = 0
    \/ /\ r.items[r.Root].child = 0
       /\ \A l \in {ListOf(r)} :
            /\ \A n \in 1..(Len(l) - 1) :
                /\ r.items[l[n]].child = (IF n = 1 THEN 0 ELSE l[n - 1])
                /\ n <= Len(matchItems)
                /\ View(r, l[n]) = ItemView(matchItems[n])
                /\ \A m \in 1..(n - 1) : r.items[l[m]].key # r.items[l[n]].key
            /\ ~(Len(l) < Len(matchItems))

\* checkWalIntegrity after Match has set testRepo.matchListItems
checkMatched(testRepo) ==
    [repo |-> testRepo,
     matches |-> MatchRes(testRepo),
     err |-> IF checkListItemPtrs(testRepo, MatchRes(testRepo)) THEN "ok" ELSE "error"]

\* checkWalIntegrity after testRepo.Replay(wal)
checkReplayed(testRepo) ==
    IF ~Terminates(testRepo)
    THEN [repo |-> testRepo, matches |-> << >>, err |-> "hang"]
    ELSE checkMatched(Match(testRepo, TRUE))

\* checkWalIntegrity: the test repo after Replay and Match, and whether the
\* check passed ("ok"), failed ("error") or never returned ("hang")
checkWalIntegrity(wal) == checkReplayed(Replay(NewRepo(0), wal))

\* areListItemsEqual(a, b, false); a and b may be nil
ItemsEqual(ra, a, rb, b) ==
    IF a = 0 /\ b = 0 THEN TRUE
    ELSE IF a = 0 \/ b = 0 THEN FALSE
    ELSE View(ra, a) = View(rb, b)

\* areListItemsEqual(a, b, true)
areListItemsEqual(ra, a, rb, b) ==
    IF a = 0 /\ b = 0 THEN TRUE
    ELSE IF a = 0 \/ b = 0 THEN FALSE
    ELSE /\ View(ra, a) = View(rb, b)
         /\ ItemsEqual(ra, ra.items[a].child, rb, rb.items[b].child)
         /\ ItemsEqual(ra, ra.items[a].parent, rb, rb.items[b].parent)
         /\ ItemsEqual(ra, ra.items[a].matchChild, rb, rb.items[b].matchChild)
         /\ ItemsEqual(ra, ra.items[a].matchParent, rb, rb.items[b].matchParent)

\* the loop of listsAreEquivalent
RECURSIVE equivalentFrom(_, _, _, _, _)
equivalentFrom(ra, a, rb, b, fuel) ==
    IF fuel = 0 THEN TRUE
    ELSE IF ra.items[a].parent # 0 /\ rb.items[b].parent # 0
    THEN /\ areListItemsEqual(ra, ra.items[a].parent, rb, rb.items[b].parent)
         /\ equivalentFrom(ra, ra.items[a].parent, rb, rb.items[b].parent, fuel - 1)
    ELSE areListItemsEqual(ra, a, rb, b)

\* listsAreEquivalent(ra.Root, rb.Root)
listsAreEquivalent(ra, rb) ==
    IF (ra.Root # 0 /\ rb.Root = 0) \/ (ra.Root = 0 /\ rb.Root # 0) THEN FALSE
    ELSE IF ~areListItemsEqual(ra, ra.Root, rb, rb.Root) THEN FALSE
    ELSE IF ra.Root = 0 THEN TRUE
    ELSE equivalentFrom(ra, ra.Root, rb, rb.Root, Len(ra.items) + 1)

(***************************************************************************)
(* recoverWal                                                              *)
(***************************************************************************)
\* ListItem{} : the zero value, as recoverWal reads it from its map
ZeroItem == NewListItem("", "", NoFriends, NilNote, 0)

\* acknowledgedItems[key]: the zero value when the key is absent
Acknowledged(ack, key) == IF key \in DOMAIN ack THEN ack[key] ELSE ZeroItem

\* the first loop: the match items by key, and the keys in order of first
\* appearance
RECURSIVE collectMatches(_, _, _)
collectMatches(matches, ack, listOrder) ==
    IF Len(matches) = 0 THEN [ack |-> ack, listOrder |-> listOrder]
    ELSE LET item == Head(matches)
         IN collectMatches(Tail(matches), (item.key :> item) @@ ack,
                           IF item.key \in DOMAIN ack THEN listOrder
                           ELSE Append(listOrder, item.key))

\* the second loop: the events of the wal applied to the map
RECURSIVE collectWal(_, _)
collectWal(wal, ack) ==
    IF Len(wal) = 0 THEN ack
    ELSE
    LET e == Head(wal)
        exists == e.ListItemKey \in DOMAIN ack
        item == Acknowledged(ack, e.ListItemKey)
        next ==
            IF e.EventType \in {AddEvent, UpdateEvent}
            THEN (e.ListItemKey :>
                    IF ~exists
                    THEN [ZeroItem EXCEPT !.rawLine = e.Line, !.Note = e.Note,
                                          !.key = e.ListItemKey]
                    ELSE IF e.EventType = AddEvent
                    THEN [item EXCEPT !.rawLine = e.Line, !.Note = e.Note]
                    ELSE IF e.Note # NilNote
                    THEN [item EXCEPT !.Note = e.Note]
                    ELSE [item EXCEPT !.rawLine = e.Line]) @@ ack
            ELSE IF e.EventType = HideEvent /\ exists
            THEN (e.ListItemKey :> [item EXCEPT !.IsHidden = TRUE]) @@ ack
            ELSE IF e.EventType = ShowEvent /\ exists
            THEN (e.ListItemKey :> [item EXCEPT !.IsHidden = FALSE]) @@ ack
            ELSE IF e.EventType = DeleteEvent
            THEN [k \in DOMAIN ack \ {e.ListItemKey} |-> ack[k]]
            ELSE ack
    IN collectWal(Tail(wal), next)

\* the third loop, from position i of listOrder down: the new wal and the
\* Lamport clock of r after it
RECURSIVE emitRecovered(_, _, _, _, _)
emitRecovered(ack, listOrder, i, clock, newWal) ==
    IF i < 1 THEN [wal |-> newWal, clock |-> clock]
    ELSE
    LET item == Acknowledged(ack, listOrder[i])
        addEl == [EmptyEventLog EXCEPT !.EventType = AddEvent,
                                       !.ListItemKey = item.key,
                                       !.Line = item.rawLine,
                                       !.Note = item.Note]
        hideEl == [EmptyEventLog EXCEPT !.EventType = HideEvent,
                                        !.LamportTimestamp = clock + 1,
                                        !.ListItemKey = item.key]
    IN IF item.IsHidden
       THEN emitRecovered(ack, listOrder, i - 1, clock + 1,
                          newWal \o <<addEl, hideEl>>)
       ELSE emitRecovered(ack, listOrder, i - 1, clock, Append(newWal, addEl))

\* DBListRepo.recoverWal: the new wal and r.currentLamportTimestamp after it
recoverWal(r, wal, matches) ==
    CHOOSE out \in { emitRecovered(collectWal(wal, c.ack), c.listOrder, Len(c.listOrder),
                                   r.currentLamportTimestamp, << >>) :
                     c \in {collectMatches(matches, << >>, << >>)} } : TRUE

(***************************************************************************)
(* compact                                                                 *)
(***************************************************************************)
\* the sweep with one set for both sorts of Update
RECURSIVE sweepOneSet(_, _, _, _, _)
sweepOneSet(wal, i, updateWithLine, updateWithNote, compactedWal) ==
    IF i < 1 THEN compactedWal
    ELSE IF wal[i].EventType = UpdateEvent /\ wal[i].ListItemKey \in updateWithLine
    THEN sweepOneSet(wal, i - 1, updateWithLine, updateWithNote, compactedWal)
    ELSE sweepOneSet(wal, i - 1,
                     IF wal[i].EventType = UpdateEvent
                     THEN updateWithLine \cup {wal[i].ListItemKey} ELSE updateWithLine,
                     updateWithNote, Append(compactedWal, wal[i]))

\* the sweep from the newest event (position i) to the oldest; the kept
\* events come out newest first
RECURSIVE sweep(_, _, _, _, _)
sweep(wal, i, updateWithLine, updateWithNote, compactedWal) ==
    IF i < 1 THEN compactedWal
    ELSE
    LET e == wal[i]
    IN IF e.EventType = UpdateEvent /\ e.Line # ""
       THEN IF e.ListItemKey \in updateWithLine
            THEN sweep(wal, i - 1, updateWithLine, updateWithNote, compactedWal)
            ELSE sweep(wal, i - 1, updateWithLine \cup {e.ListItemKey},
                       updateWithNote, Append(compactedWal, e))
       ELSE IF e.EventType = UpdateEvent
       THEN IF e.ListItemKey \in updateWithNote
            THEN sweep(wal, i - 1, updateWithLine, updateWithNote, compactedWal)
            ELSE sweep(wal, i - 1, updateWithLine,
                       updateWithNote \cup {e.ListItemKey}, Append(compactedWal, e))
       ELSE sweep(wal, i - 1, updateWithLine, updateWithNote, Append(compactedWal, e))

Reverse(s) == [n \in 1..Len(s) |-> s[Len(s) + 1 - n]]

\* compact when the first integrity check failed: rec is what recoverWal
\* returned
compactRecovered(rec) ==
    [wal |-> rec.wal, clock |-> rec.clock,
     err |-> IF checkWalIntegrity(rec.wal).err # "ok"
             THEN "fatal: wal recovery failed!"
             ELSE "errWalIntregrity"]

\* the end of compact: a and b are the integrity checks of the wal and of the
\* compacted wal
compactChecked(r, compactedWal, a, b) ==
    [wal |-> compactedWal, clock |-> r.currentLamportTimestamp,
     err |-> IF b.err # "ok"
             THEN "fatal: compact caused wal to lose integrity"
             ELSE IF ~listsAreEquivalent(a.repo, b.repo)
             THEN "fatal: compact generated inconsistent results"
             ELSE "nil"]

\* compact from the sweep on: a is the integrity check of the wal
compactSwept(r, compactedWal, a) ==
    compactChecked(r, compactedWal, a, checkWalIntegrity(compactedWal))

\* compact from the first integrity check on
compactIntegrity(r, wal, a) ==
    IF a.err # "ok"
    THEN compactRecovered(recoverWal(r, wal, a.matches))
    ELSE compactSwept(r, Reverse(sweep(wal, Len(wal), {}, {}, << >>)), a)

\* compact of a sorted wal
compactSorted(r, wal) == compactIntegrity(r, wal, checkWalIntegrity(wal))

\* DBListRepo.compact: the wal returned, r.currentLamportTimestamp after it,
\* and how it ended: "nil", "errWalIntregrity", or a log.Fatal
compact(r, wal) ==
    IF Len(wal) = 0
    THEN [wal |-> << >>, clock |-> r.currentLamportTimestamp, err |-> "nil"]
    ELSE compactSorted(r, SortedSeq(Range(wal)))

(***************************************************************************)
(* SpecReplay: one replica replays any events, one after the other.        *)
(***************************************************************************)
\* the items the replayed events are about, and their targets
ReplayKeys == {"1:1", "2:1"}
ReplayTargets == ReplayKeys \cup {NullKey}

\* what an event may say, by kind: Move, Show, Hide and Delete carry neither
\* line nor note; an Update carries a line or a note
ReplayContents ==
    { <<AddEvent, k, t, "a", NilNote>> : k \in ReplayKeys, t \in ReplayTargets }
    \cup { <<UpdateEvent, k, NullKey, "b", NilNote>> : k \in ReplayKeys }
    \cup { <<UpdateEvent, k, NullKey, "", <<"n">> >> : k \in ReplayKeys }
    \cup { <<ty, k, t, "", NilNote>> :
            ty \in {MoveUpEvent, MoveDownEvent}, k \in ReplayKeys, t \in ReplayTargets }
    \cup { <<ty, k, NullKey, "", NilNote>> :
            ty \in {ShowEvent, HideEvent, DeleteEvent}, k \in ReplayKeys }

ReplayEvents ==
    { Ev(u, l, c[1], c[2], c[3], c[4], c[5]) :
        u \in 1..MaxUUID, l \in 1..MaxReplayLamport, c \in ReplayContents }

LocalUUID == 1

InitReplay ==
    /\ repo = NewRepo(LocalUUID)
    /\ peer = Idle
    /\ wal1 = << >>
    /\ wal2 = << >>
    /\ wal3 = << >>
    /\ res = << >>
    /\ pc = "replay"
    /\ now = 0

\* An event has one identity: what r may be given next is an event it has
\* been given before, or (up to MaxEvents events) one of a new identity.
Deliverable(r, e) ==
    \/ e \in Range(r.log)
    \/ /\ Len(r.log) < MaxEvents
       /\ EventKey(e) \notin Identities(r.log)

\* Replay of a one event log
ReplayEvent ==
    /\ \E e \in ReplayEvents :
        /\ Deliverable(repo, e)
        /\ wal2' = <<e>>
        /\ repo' = Replay(repo, <<e>>)
    /\ UNCHANGED <<now, peer, wal1, wal3, res, pc>>

NextReplay == ReplayEvent

SpecReplay == InitReplay /\ [][NextReplay]_vars

\* the items of r that are not deleted and carry the key
LiveWithKey(r, key) ==
    { i \in 1..Len(r.items) : r.items[i].key = key /\ ~r.items[i].isDeleted }

\* C25: when an Update of key k that carries a line is the only event replayed
\* so far and the Add of k, of a lower lamport, is replayed after it, the list
\* holds exactly one live item k and its line is the line of the Update.
C25_LateAddKeepsUpdate ==
    [][ (/\ Len(repo.log) = 1
         /\ repo.log[1].EventType = UpdateEvent
         /\ repo.log[1].Line # ""
         /\ Len(repo'.log) = 2
         /\ wal2'[1].EventType = AddEvent
         /\ wal2'[1].ListItemKey = repo.log[1].ListItemKey
         /\ wal2'[1].LamportTimestamp < repo.log[1].LamportTimestamp)
        => /\ Cardinality(LiveWithKey(repo', repo.log[1].ListItemKey)) = 1
           /\ \A i \in LiveWithKey(repo', repo.log[1].ListItemKey) :
                  repo'.items[i].rawLine = repo.log[1].Line ]_vars

\* the event of the step is of type ty and the item of its key is live
OnLiveItem(ty) ==
    /\ Len(wal2') = 1
    /\ wal2'[1].EventType = ty
    /\ LiveItem(repo, wal2'[1].ListItemKey) # 0

\* the event of the step is applied: it is new and no newer one of its type
\* and key has been
Applied ==
    /\ EventKey(wal2'[1]) \notin repo.processedEventLogCache
    /\ repo'.listItemProcessedEventLogTypeCache[<<wal2'[1].EventType, wal2'[1].ListItemKey>>]
            = wal2'[1]

\* C34: the replay of an Add of a key whose item is live adds no item and
\* moves none: Root, the order and the live items stay, and the items are as
\* after an update with the line of the event and an update of the note, or
\* (when the event is skipped) as before
C34_AddOnLiveItemUpdates ==
    [][ OnLiveItem(AddEvent) =>
          /\ repo'.Root = repo.Root
          /\ ListOf(repo') = ListOf(repo)
          /\ LiveItems(repo') = LiveItems(repo)
          /\ Len(repo'.items) = Len(repo.items)
          /\ repo'.items =
                (IF Applied
                 THEN update(update(repo, LiveItem(repo, wal2'[1].ListItemKey),
                                    wal2'[1].Line, wal2'[1].Friends, wal2'[1].Note),
                             LiveItem(repo, wal2'[1].ListItemKey),
                             "", wal2'[1].Friends, wal2'[1].Note).items
                 ELSE repo.items) ]_vars

\* two Adds and a note Update of one key have been replayed and the one item
\* of the list has no note: an Add was applied to the live item after the
\* Update
C34_Witness ==
    /\ Len(repo.log) = 3
    /\ \A e \in Range(repo.log) : e.ListItemKey = "1:1"
    /\ Cardinality({ e \in Range(repo.log) : e.EventType = AddEvent }) = 2
    /\ \E e \in Range(repo.log) : e.EventType = UpdateEvent /\ e.Note # NilNote
    /\ Len(ListOf(repo)) = 1
    /\ repo.items[repo.Root].Note = NilNote
    /\ Len(repo.items) = 1

\* C28: the replay of a Delete of a key whose item is already deleted leaves
\* the list as it was: Root, the order, and the line, note, hidden flag and
\* deleted flag of every item.
C28_DeleteOfTombstone ==
    [][ (/\ Len(wal2') = 1
         /\ wal2'[1].EventType = DeleteEvent
         /\ Tracked(repo, wal2'[1].ListItemKey) # 0
         /\ repo.items[Tracked(repo, wal2'[1].ListItemKey)].isDeleted)
        => /\ repo'.Root = repo.Root
           /\ repo'.items = repo.items ]_vars

\* two Deletes of one key have been replayed, the second of them on the item
\* the first had deleted; an item is left in the list
C28_Witness ==
    /\ Len(wal2) = 1
    /\ wal2[1].EventType = DeleteEvent
    /\ \E i \in 1..Len(repo.log) :
          /\ repo.log[i].EventType = DeleteEvent
          /\ repo.log[i].ListItemKey = wal2[1].ListItemKey
          /\ EventKey(repo.log[i]) # EventKey(wal2[1])
    /\ EventKey(wal2[1]) \in repo.processedEventLogCache
    /\ Tracked(repo, wal2[1].ListItemKey) # 0
    /\ repo.items[Tracked(repo, wal2[1].ListItemKey)].isDeleted

\* R1: Root has no child
R1(r) == r.Root # 0 => r.items[r.Root].child = 0

\* R2: each item met from Root has the item met before it as its child
R2(r) ==
    LET l == ListOf(r)
    IN \A n \in 2..Len(l) : r.items[l[n]].child = l[n - 1]

\* R3: every live item of the key index is met from Root
R3(r) == LiveItems(r) \subseteq Range(ListOf(r))

\* R4: the traversal ends, meets no key twice and only live items
R4(r) ==
    LET l == ListOf(r)
    IN /\ Terminates(r)
       /\ \A m, n \in 1..Len(l) : m # n => r.items[l[m]].key # r.items[l[n]].key
       /\ Range(l) \subseteq LiveItems(r)

\* C4: after any replayed events the list satisfies R1 and R2.
C4_RootAndChildPointers == R1(repo) /\ R2(repo)

\* C5: after any replayed events the traversal from Root ends and meets
\* every live item of the key index exactly once.
C5_ReachableAndAcyclic == R3(repo) /\ R4(repo)

(***************************************************************************)
(* SpecConverge: two replicas are given the events of one history, each in *)
(* its own order and batching.                                             *)
(***************************************************************************)
PeerUUID == 2

\* a history: replicas 1 and 2 each add an item; 1 edits its own, 2 hides its own
ConvergeEvents ==
    { Ev(1, 1, AddEvent, "1:1", NullKey, "a", NilNote),
      Ev(2, 1, AddEvent, "2:1", NullKey, "a", NilNote),
      Ev(1, 2, UpdateEvent, "1:1", NullKey, "b", NilNote),
      Ev(2, 2, HideEvent, "2:1", NullKey, "", NilNote) }

\* the logs a pull or a peer message hands to Replay: sorted, one or two events
ConvergeWals ==
    { SortedSeq(S) : S \in { T \in SUBSET ConvergeEvents : Cardinality(T) \in {1, 2} } }

InitConverge ==
    /\ repo = NewRepo(LocalUUID)
    /\ peer = NewRepo(PeerUUID)
    /\ wal1 = << >>
    /\ wal2 = << >>
    /\ wal3 = << >>
    /\ res = << >>
    /\ pc = "replay"
    /\ now = 0

ReplayAtRepo ==
    /\ \E w \in ConvergeWals :
        /\ wal2' = w
        /\ repo' = Replay(repo, w)
    /\ UNCHANGED <<now, peer, wal1, wal3, res, pc>>

ReplayAtPeer ==
    /\ \E w \in ConvergeWals :
        /\ wal2' = w
        /\ peer' = Replay(peer, w)
    /\ UNCHANGED <<now, repo, wal1, wal3, res, pc>>

NextConverge == ReplayAtRepo \/ ReplayAtPeer

SpecConverge == InitConverge /\ [][NextConverge]_vars

\* the lists of two replicas show the same keys in the same order with the
\* same line, note and hidden flag
ListsEquivalent(a, b) == ViewOf(a) = ViewOf(b)

\* C1: two replicas that have been given the same set of events show
\* equivalent lists, whatever the order and batching of delivery.
C1_Convergence ==
    Range(repo.log) = Range(peer.log) => ListsEquivalent(repo, peer)

\* the keys of the list of r, from the root along the parent pointers
KeysOf(r) == [n \in 1..Len(ListOf(r)) |-> r.items[ListOf(r)[n]].key]

\* the two Adds of the tie: replicas 1 and 2 each add an item with a null
\* target at lamport 1
TieAdds ==
    { Ev(1, 1, AddEvent, "1:1", NullKey, "a", NilNote),
      Ev(2, 1, AddEvent, "2:1", NullKey, "a", NilNote) }

\* C24: two Adds with a null target and the same lamport, one of replica 1 and
\* one of replica 2, give the same list on both replicas once both hold both
\* events: the item of the lower replica id at the head and the other item as
\* its parent.
C24_TieBreakOrder ==
    /\ Range(repo.log) = TieAdds => KeysOf(repo) = <<"1:1", "2:1">>
    /\ Range(peer.log) = TieAdds => KeysOf(peer) = <<"1:1", "2:1">>

(***************************************************************************)
(* SpecReplayMerge: one batch replay of the merge of two logs, against the *)
(* replay of the first followed by every event of the second.              *)
(***************************************************************************)
\* a history as ConvergeEvents, in which 1 then deletes its item and 2 moves
\* its item above the item of 1
HistoryEvents ==
    ConvergeEvents \cup
    { Ev(1, 3, DeleteEvent, "1:1", NullKey, "", NilNote),
      Ev(2, 3, MoveUpEvent, "2:1", "1:1", "", NilNote) }

\* the sorted logs of at most MaxWalLen events of the history
HistoryWals ==
    { SortedSeq(S) : S \in { T \in SUBSET HistoryEvents : Cardinality(T) <= MaxWalLen } }

InitReplayMerge ==
    /\ wal1 \in HistoryWals
    /\ wal2 \in HistoryWals
    /\ wal3 = << >>
    /\ repo = NewRepo(LocalUUID)
    /\ peer = NewRepo(LocalUUID)
    /\ res = << >>
    /\ pc = "start"
    /\ now = 0

\* repo replays merge(wal1, wal2); peer replays wal1 and then processes the
\* events of wal2 one by one
ReplayMerged ==
    /\ pc = "start"
    /\ wal3' = merge(wal1, wal2)
    /\ repo' = Replay(repo, merge(wal1, wal2))
    /\ peer' = processAll(Replay(peer, wal1), wal2)
    /\ pc' = "replayed"
    /\ UNCHANGED <<now, wal1, wal2, res>>

NextReplayMerge == ReplayMerged

SpecReplayMerge == InitReplayMerge /\ [][NextReplayMerge]_vars

\* C2: for sorted logs A and B, the replay of merge(A, B) from an empty state
\* shows the same list (keys, order, line, note, hidden) as the replay of A
\* followed by each event of B in order
C2_ReplayOfMerge ==
    pc = "replayed" => ListsEquivalent(repo, peer)

(***************************************************************************)
(* SpecCompact: compact applied to a sorted log.                           *)
(***************************************************************************)
CompactKeys == {"1:1", "2:1"}

\* what an event of a log to compact does
CompactContents ==
    UNION { { <<AddEvent, k, "a", NilNote>>,
              <<UpdateEvent, k, "b", NilNote>>,
              <<UpdateEvent, k, "c", NilNote>>,
              <<UpdateEvent, k, "", <<"n">> >>,
              <<MoveUpEvent, k, "", NilNote>>,
              <<MoveDownEvent, k, "", NilNote>>,
              <<ShowEvent, k, "", NilNote>>,
              <<HideEvent, k, "", NilNote>>,
              <<DeleteEvent, k, "", NilNote>> } : k \in CompactKeys }

\* the logs to compact: events of replica LocalUUID at Lamport times of
\* 1..MaxLamport, sorted, at most MaxWalLen events, one per identity
CompactWals ==
    UNION { { SortedSeq({ Ev(LocalUUID, l, f[l][1], f[l][2], NullKey, f[l][3], f[l][4]) :
                            l \in L }) : f \in [L -> CompactContents] } :
            L \in { T \in SUBSET (1..MaxLamport) : Cardinality(T) <= MaxWalLen } }

InitCompact ==
    /\ wal1 \in CompactWals
    /\ wal2 = << >>
    /\ wal3 = << >>
    /\ repo = NewRepo(LocalUUID)
    /\ peer = Idle
    /\ res = [err |-> "none"]
    /\ pc = "start"
    /\ now = 0

\* wal2 is the wal compact returns
Compact ==
    /\ pc = "start"
    /\ \E c \in {compact(repo, wal1)} :
          /\ wal2' = c.wal
          /\ res' = [err |-> c.err]
          /\ repo' = [repo EXCEPT !.currentLamportTimestamp = c.clock]
    /\ pc' = "compacted"
    /\ UNCHANGED <<now, peer, wal1, wal3>>

NextCompact == Compact

SpecCompact == InitCompact /\ [][NextCompact]_vars

\* C3: for a log that passes the integrity check, the replay of the compacted
\* log shows the same list as the replay of the log, and the equivalence check
\* at the end of compact does not fail
C3_CompactKeepsList ==
    (pc = "compacted" /\ checkWalIntegrity(wal1).err = "ok") =>
        /\ res.err = "nil"
        /\ ListsEquivalent(Replay(NewRepo(LocalUUID), wal2),
                           Replay(NewRepo(LocalUUID), wal1))

\* the Update at position i of wal is the newest of its sort (with a line, or
\* without) for its key
NewestOfSort(wal, i) ==
    \A j \in (i + 1)..Len(wal) :
        ~(/\ wal[j].EventType = UpdateEvent
          /\ wal[j].ListItemKey = wal[i].ListItemKey
          /\ (wal[j].Line = "") = (wal[i].Line = ""))

\* the events of wal that are no Update, and the newest Update of each sort
\* for each key
KeptEvents(wal) ==
    { wal[i] : i \in { n \in 1..Len(wal) :
                         wal[n].EventType = UpdateEvent => NewestOfSort(wal, n) } }

Recover ==
    /\ pc = "start"
    /\ checkWalIntegrity(wal1).err # "hang"
    /\ \E rec \in {recoverWal(repo, wal1, checkWalIntegrity(wal1).matches)} :
          /\ wal2' = rec.wal
          /\ repo' = [repo EXCEPT !.currentLamportTimestamp = rec.clock]
    /\ res' = [err |-> "nil"]
    /\ pc' = "recovered"
    /\ UNCHANGED <<now, peer, wal1, wal3>>

NextRecover == Recover

SpecRecover == InitCompact /\ [][NextRecover]_vars

\* C30: the log recoverWal returns for a log and the match items of its
\* replay, replayed on an empty replica, shows the keys of the match items in
\* their order, in a list that satisfies R1 to R4.
C30_RecoveredShowsMatches ==
    pc = "recovered" =>
        \A rec \in {Replay(NewRepo(LocalUUID), wal2)} :
            /\ KeysOf(rec) = [n \in 1..Len(checkWalIntegrity(wal1).matches) |->
                                checkWalIntegrity(wal1).matches[n].key]
            /\ R1(rec) /\ R2(rec) /\ R3(rec) /\ R4(rec)

(***************************************************************************)
(* SpecLog: the log of one replica under its own mutations and Replay.     *)
(***************************************************************************)
\* ListItem.Key(): "<originUUID>:<creationTime>"
Key(originUUID, creationTime) == ToString(originUUID) \o ":" \o ToString(creationTime)

\* the originUUID and the creationTime of the item of a key
KeyParts(key) ==
    CHOOSE p \in (0..MaxUUID) \X (0..MaxLamport) : Key(p[1], p[2]) = key

\* the originUUID and creationTime of item i of r; <<0, 0>> for nil
Origin(r, i) == IF i = 0 THEN <<0, 0>> ELSE KeyParts(r.items[i].key)

\* DBListRepo.processEventLog(e EventType, ...) of the mutation API: the event
\* is stamped with t, the reading of time.Now().UnixNano(), appended to the
\* log and applied to the list.  The event is written in the current layout
\* as buildFromFile upgrades it.
emitEventLog(r, t, e, creationTime, targetCreationTime, newLine, newNote, originUUID, targetUUID) ==
    LET el == Ev(originUUID, t, e, Key(originUUID, creationTime),
                 Key(targetUUID, targetCreationTime), newLine, newNote)
    IN processEventLog([r EXCEPT !.log = Append(@, el)], el)

\* DBListRepo.addUndoLog: the entries past curIdx are dropped, the entry is
\* appended and curIdx moves onto it.  Entry i of the code, i >= 1, is log[i];
\* the entry at index 0 of the code is never undone and is left out.
addUndoLog(r, e, creationTime, targetCreationTime, originUUID, targetUUID, oldLine, oldNote, newLine, newNote) ==
    [r EXCEPT !.eventLogger =
        [log |-> Append(SubSeq(@.log, 1, @.curIdx),
                        [eventType |-> e,
                         listItemCreationTime |-> creationTime,
                         targetListItemCreationTime |-> targetCreationTime,
                         uuid |-> originUUID,
                         targetUUID |-> targetUUID,
                         undoLine |-> oldLine, undoNote |-> oldNote,
                         redoLine |-> newLine, redoNote |-> newNote]),
         curIdx |-> @.curIdx + 1]]

\* oppositeEvent: the event that undoes an event
oppositeEvent ==
    (AddEvent :> DeleteEvent) @@ (DeleteEvent :> AddEvent)
    @@ (UpdateEvent :> UpdateEvent)
    @@ (MoveUpEvent :> MoveDownEvent) @@ (MoveDownEvent :> MoveUpEvent)
    @@ (ShowEvent :> HideEvent) @@ (HideEvent :> ShowEvent)

\* the events replica PeerUUID has made: it adds an item at each time, and
\* later edits, hides or deletes its first
RemoteEvents ==
    { Ev(PeerUUID, t, AddEvent, Key(PeerUUID, t), NullKey, "r", NilNote) :
        t \in 1..MaxLamport }
    \cup { Ev(PeerUUID, t, c[1], Key(PeerUUID, 1), NullKey, c[2], NilNote) :
        t \in 2..MaxLamport,
        c \in {<<UpdateEvent, "s">>, <<HideEvent, "">>, <<DeleteEvent, "">>} }

\* the sorted logs of one or two events of the peer, one per identity
RemoteWals ==
    { SortedSeq(S) : S \in { T \in SUBSET RemoteEvents :
                                /\ Cardinality(T) \in {1, 2}
                                /\ \A x, y \in T : EventKey(x) = EventKey(y) => x = y } }

InitLog ==
    /\ repo = NewRepo(LocalUUID)
    /\ peer = Idle
    /\ wal1 = << >>
    /\ wal2 = << >>
    /\ wal3 = << >>
    /\ res = [op |-> "NewDBListRepo", idx |-> 0, err |-> "nil"]
    /\ pc = "run"
    /\ now = 0

\* what a call of the mutation API returned: the index it was called with (the
\* 0-based index of the code) and its error
Returned(op, idx, err) == [op |-> op, idx |-> idx, err |-> err]

\* errors.New("ListItem idx out of bounds: ...")
errOutOfBounds == "ListItem idx out of bounds"

\* DBListRepo.Add without the test idx < 0: a negative index inserts at the head
AddNoLowerBound ==
    /\ Len(repo.log) < MaxEvents
    /\ \E idx \in -1..(Len(repo.matchListItems) + 1), line \in {"a"} :
        IF idx > Len(repo.matchListItems)
        THEN /\ res' = Returned("Add", idx, errOutOfBounds)
             /\ UNCHANGED <<repo, now>>
        ELSE \E creation \in (now + 1)..MaxLamport :
               \E t \in creation..MaxLamport :
                 LET child == Origin(repo, IF idx > 0 THEN repo.matchListItems[idx]
                                           ELSE 0)
                 IN /\ repo' = addUndoLog(
                                emitEventLog(repo, t, AddEvent, creation, child[2],
                                             line, NilNote, repo.uuid, child[1]),
                                AddEvent, creation, child[2], repo.uuid, child[1],
                                line, NilNote, line, NilNote)
                    /\ now' = t
                    /\ res' = Returned("Add", idx, "nil")
    /\ UNCHANGED <<peer, wal1, wal2, wal3, pc>>

\* DBListRepo.Add(line, nil, idx): the index is tested first; the clock is
\* read for the creation time and again for the event
Add ==
    /\ Len(repo.log) < MaxEvents
    /\ \E idx \in -1..(Len(repo.matchListItems) + 1), line \in {"a"} :
        IF idx < 0 \/ idx > Len(repo.matchListItems)
        THEN /\ res' = Returned("Add", idx, errOutOfBounds)
             /\ UNCHANGED <<repo, now>>
        ELSE \E creation \in (now + 1)..MaxLamport :
               \E t \in creation..MaxLamport :
                 LET child == Origin(repo, IF idx > 0 THEN repo.matchListItems[idx]
                                           ELSE 0)
                 IN /\ repo' = addUndoLog(
                                emitEventLog(repo, t, AddEvent, creation, child[2],
                                             line, NilNote, repo.uuid, child[1]),
                                AddEvent, creation, child[2], repo.uuid, child[1],
                                line, NilNote, line, NilNote)
                    /\ now' = t
                    /\ res' = Returned("Add", idx, "nil")
    /\ UNCHANGED <<peer, wal1, wal2, wal3, pc>>

\* DBListRepo.Update(line, note, idx)
Update ==
    /\ Len(repo.log) < MaxEvents
    /\ \E idx \in -1..Len(repo.matchListItems),
          c \in {<<"b", NilNote>>, <<"", <<"n">> >>} :
        IF idx < 0 \/ idx >= Len(repo.matchListItems)
        THEN /\ res' = Returned("Update", idx, errOutOfBounds)
             /\ UNCHANGED <<repo, now>>
        ELSE \E t \in (now + 1)..MaxLamport :
               LET listItem == repo.matchListItems[idx + 1]
                   own == Origin(repo, listItem)
                   child == Origin(repo, repo.items[listItem].child)
               IN /\ repo' = emitEventLog(
                                addUndoLog(repo, UpdateEvent, own[2], 0, own[1], own[1],
                                           repo.items[listItem].rawLine,
                                           repo.items[listItem].Note, c[1], c[2]),
                                t, UpdateEvent, own[2], child[2], c[1], c[2], own[1],
                                child[1])
                  /\ now' = t
                  /\ res' = Returned("Update", idx, "nil")
    /\ UNCHANGED <<peer, wal1, wal2, wal3, pc>>

\* DBListRepo.Delete(idx)
Delete ==
    /\ Len(repo.log) < MaxEvents
    /\ \E idx \in -1..Len(repo.matchListItems) :
        IF idx < 0 \/ idx >= Len(repo.matchListItems)
        THEN /\ res' = Returned("Delete", idx, errOutOfBounds)
             /\ UNCHANGED <<repo, now>>
        ELSE \E t \in (now + 1)..MaxLamport :
               LET listItem == repo.matchListItems[idx + 1]
                   own == Origin(repo, listItem)
                   target == Origin(repo, repo.items[listItem].child)
               IN /\ repo' = addUndoLog(
                                emitEventLog(repo, t, DeleteEvent, own[2], 0, "",
                                             NilNote, own[1], 0),
                                DeleteEvent, own[2], target[2], own[1], target[1],
                                repo.items[listItem].rawLine, repo.items[listItem].Note,
                                repo.items[listItem].rawLine, repo.items[listItem].Note)
                  /\ now' = t
                  /\ res' = Returned("Delete", idx, "nil")
    /\ UNCHANGED <<peer, wal1, wal2, wal3, pc>>

\* DBListRepo.MoveUp(idx): the target is the child of the match child; the
\* event is emitted whether or not there is a match child
MoveUp ==
    /\ Len(repo.log) < MaxEvents
    /\ \E idx \in -1..Len(repo.matchListItems) :
        IF idx < 0 \/ idx >= Len(repo.matchListItems)
        THEN /\ res' = Returned("MoveUp", idx, errOutOfBounds)
             /\ UNCHANGED <<repo, now>>
        ELSE \E t \in (now + 1)..MaxLamport :
               LET listItem == repo.matchListItems[idx + 1]
                   own == Origin(repo, listItem)
                   matchChild == repo.items[listItem].matchChild
                   target == Origin(repo, IF matchChild # 0
                                          THEN repo.items[matchChild].child ELSE 0)
                   moved == emitEventLog(repo, t, MoveUpEvent, own[2], target[2],
                                         "", NilNote, own[1], target[1])
               IN /\ repo' = IF matchChild # 0 /\ Origin(repo, matchChild)[2] # 0
                             THEN addUndoLog(moved, MoveUpEvent, own[2], target[2],
                                             own[1], target[1], "", NilNote, "",
                                             NilNote)
                             ELSE moved
                  /\ now' = t
                  /\ res' = Returned("MoveUp", idx, "nil")
    /\ UNCHANGED <<peer, wal1, wal2, wal3, pc>>

\* DBListRepo.MoveDown(idx): the target is the match parent; the event is
\* emitted whether or not there is a match parent
MoveDown ==
    /\ Len(repo.log) < MaxEvents
    /\ \E idx \in -1..Len(repo.matchListItems) :
        IF idx < 0 \/ idx >= Len(repo.matchListItems)
        THEN /\ res' = Returned("MoveDown", idx, errOutOfBounds)
             /\ UNCHANGED <<repo, now>>
        ELSE \E t \in (now + 1)..MaxLamport :
               LET listItem == repo.matchListItems[idx + 1]
                   own == Origin(repo, listItem)
                   target == Origin(repo, repo.items[listItem].matchParent)
                   moved == emitEventLog(repo, t, MoveDownEvent, own[2], target[2],
                                         "", NilNote, own[1], target[1])
               IN /\ repo' = IF repo.items[listItem].matchParent # 0 /\ target[2] # 0
                             THEN addUndoLog(moved, MoveDownEvent, own[2], target[2],
                                             own[1], target[1], "", NilNote, "",
                                             NilNote)
                             ELSE moved
                  /\ now' = t
                  /\ res' = Returned("MoveDown", idx, "nil")
    /\ UNCHANGED <<peer, wal1, wal2, wal3, pc>>

\* DBListRepo.ToggleVisibility(idx)
ToggleVisibility ==
    /\ Len(repo.log) < MaxEvents
    /\ \E idx \in -1..Len(repo.matchListItems) :
        IF idx < 0 \/ idx >= Len(repo.matchListItems)
        THEN /\ res' = Returned("ToggleVisibility", idx, errOutOfBounds)
             /\ UNCHANGED <<repo, now>>
        ELSE \E t \in (now + 1)..MaxLamport :
               LET listItem == repo.matchListItems[idx + 1]
                   own == Origin(repo, listItem)
                   evType == IF repo.items[listItem].IsHidden THEN ShowEvent
                             ELSE HideEvent
               IN /\ repo' = emitEventLog(
                                addUndoLog(repo, evType, own[2], 0, own[1], own[1], "",
                                           NilNote, "", NilNote),
                                t, evType, own[2], 0, "", NilNote, own[1], 0)
                  /\ now' = t
                  /\ res' = Returned("ToggleVisibility", idx, "nil")
    /\ UNCHANGED <<peer, wal1, wal2, wal3, pc>>

\* DBListRepo.Undo without the new creation time: an Add that undoes a Delete
\* carries the key of the deleted item
UndoSameKey ==
    /\ Len(repo.log) < MaxEvents
    /\ IF repo.eventLogger.curIdx > 0
       THEN \E t \in (now + 1)..MaxLamport :
                LET uel == repo.eventLogger.log[repo.eventLogger.curIdx]
                    evType == oppositeEvent[uel.eventType]
                IN /\ repo' = [emitEventLog(
                                 repo, t, evType, uel.listItemCreationTime,
                                 uel.targetListItemCreationTime, uel.undoLine,
                                 uel.undoNote, uel.uuid, uel.targetUUID)
                               EXCEPT !.eventLogger =
                                 [log |-> repo.eventLogger.log,
                                  curIdx |-> repo.eventLogger.curIdx - 1]]
                   /\ now' = t
       ELSE UNCHANGED <<repo, now>>
    /\ res' = Returned("Undo", 0, "nil")
    /\ UNCHANGED <<peer, wal1, wal2, wal3, pc>>

\* DBListRepo.Undo(): the entry at curIdx is undone by its opposite event; an
\* Add is given a creation time read from the clock, which the entry keeps
Undo ==
    /\ Len(repo.log) < MaxEvents
    /\ IF repo.eventLogger.curIdx > 0
       THEN \E creation \in (now + 1)..MaxLamport :
              \E t \in creation..MaxLamport :
                LET uel == repo.eventLogger.log[repo.eventLogger.curIdx]
                    evType == oppositeEvent[uel.eventType]
                    undone == IF evType = AddEvent
                              THEN [uel EXCEPT !.listItemCreationTime = creation]
                              ELSE uel
                IN /\ evType # AddEvent => creation = now + 1
                   /\ repo' = [emitEventLog(
                                 repo, t, evType, undone.listItemCreationTime,
                                 undone.targetListItemCreationTime, undone.undoLine,
                                 undone.undoNote, undone.uuid, undone.targetUUID)
                               EXCEPT !.eventLogger =
                                 [log |-> [repo.eventLogger.log
                                             EXCEPT ![repo.eventLogger.curIdx] = undone],
                                  curIdx |-> repo.eventLogger.curIdx - 1]]
                   /\ now' = t
       ELSE UNCHANGED <<repo, now>>
    /\ res' = Returned("Undo", 0, "nil")
    /\ UNCHANGED <<peer, wal1, wal2, wal3, pc>>

\* the client refreshes its view: Match with or without the hidden items; on
\* a list that cycles Match does not return
Refresh ==
    /\ Terminates(repo)
    /\ \E showHidden \in BOOLEAN : repo' = Match(repo, showHidden)
    /\ res' = Returned("Match", 0, "nil")
    /\ UNCHANGED <<now, peer, wal1, wal2, wal3, pc>>

\* Replay of a log of the peer
ReplayRemote ==
    /\ \E w \in RemoteWals :
        /\ \A i \in 1..Len(w) : Deliverable(repo, w[i])
        /\ Len(repo.log) + Len(w) <= MaxEvents
        /\ wal2' = w
        /\ repo' = Replay(repo, w)
    /\ res' = Returned("Replay", 0, "nil")
    /\ UNCHANGED <<now, peer, wal1, wal3, pc>>

NextLog ==
    \/ Add
    \/ Update
    \/ Delete
    \/ MoveUp
    \/ MoveDown
    \/ ToggleVisibility
    \/ Undo
    \/ Refresh
    \/ ReplayRemote

SpecLog == InitLog /\ [][NextLog]_vars

\* C6: after any interleaving of local mutations and Replay calls the local
\* log is sorted by checkEquality and holds no two equal events
C6_LogSortedNoDuplicates == IsStrictlyIncreasing(repo.log)

\* the calls of the mutation API that take an index of the match list
MutationOps == {"Add", "Update", "Delete", "MoveUp", "MoveDown", "ToggleVisibility"}

\* C23: Update, Delete, MoveUp, MoveDown and ToggleVisibility called with
\* idx < 0 or idx >= len(match list), and Add called with idx < 0 or
\* idx > len(match list), return the out-of-bounds error, emit no event and
\* leave the log, the list and the key index as they were.
C23_OutOfBoundsIsNoOp ==
    [][ (/\ res'.op \in MutationOps
         /\ \/ res'.idx < 0
            \/ res'.idx > Len(repo.matchListItems)
            \/ res'.op # "Add" /\ res'.idx = Len(repo.matchListItems))
        => /\ res'.err = errOutOfBounds
           /\ repo' = repo
           /\ now' = now ]_vars

\* an Add below the list and a Delete past the end of a list that holds an
\* item have both returned the error
C23_Witness ==
    /\ res.op \in {"Add", "Delete"}
    /\ res.err = errOutOfBounds
    /\ Len(repo.matchListItems) > 0
    /\ Len(repo.log) > 0
    /\ (res.op = "Add" => res.idx < 0)
    /\ (res.op = "Delete" => res.idx >= Len(repo.matchListItems))

\* the replica has emitted an Add and then a Delete of the item it added, and
\* nothing else; the Delete is the call Undo is about to undo
AddedThenDeleted(r) ==
    /\ Len(r.log) = 2
    /\ r.eventLogger.curIdx > 0
    /\ r.eventLogger.log[r.eventLogger.curIdx].eventType = DeleteEvent
    /\ r.log[1].EventType = AddEvent
    /\ r.log[2].EventType = DeleteEvent
    /\ r.log[1].UUID = r.uuid
    /\ r.log[2].ListItemKey = r.log[1].ListItemKey

\* C26: after a replica has emitted Add(k) and Delete(k), Undo emits an Add
\* with a key other than k, a timestamp above those of both events and the
\* line of the deleted item, and the list then holds exactly one live item,
\* the one of the new key.
C26_UndoOfDelete ==
    [][ (AddedThenDeleted(repo) /\ res'.op = "Undo")
        => /\ Len(repo'.log) = 3
           /\ repo'.log[3].EventType = AddEvent
           /\ repo'.log[3].ListItemKey # repo.log[1].ListItemKey
           /\ repo'.log[3].LamportTimestamp > repo.log[1].LamportTimestamp
           /\ repo'.log[3].LamportTimestamp > repo.log[2].LamportTimestamp
           /\ repo'.log[3].Line = repo.log[1].Line
           /\ { repo'.items[i].key :
                    i \in { j \in 1..Len(repo'.items) : ~repo'.items[j].isDeleted } }
                = {repo'.log[3].ListItemKey}
           /\ Cardinality(LiveWithKey(repo', repo'.log[3].ListItemKey)) = 1 ]_vars

\* Undo has answered a Delete by an Add
C26_Witness ==
    /\ res.op = "Undo"
    /\ Len(repo.log) = 3
    /\ repo.log[1].EventType = AddEvent
    /\ repo.log[2].EventType = DeleteEvent
    /\ repo.log[3].EventType = AddEvent
    /\ repo.log[2].ListItemKey = repo.log[1].ListItemKey
    /\ repo.eventLogger.curIdx = 1

\* C27: MoveUp or MoveDown called on the one item of a match list of a single
\* visible item, which is also the one item of the list, appends no event to
\* the log and leaves the list as it was.
C27_SoleItemMoveIsNoOp ==
    [][ (/\ res'.op \in {"MoveUp", "MoveDown"}
         /\ res'.err = "nil"
         /\ Len(repo.matchListItems) = 1
         /\ Len(ListOf(repo)) = 1
         /\ ~repo.items[repo.matchListItems[1]].IsHidden)
        => /\ repo'.log = repo.log
           /\ ViewOf(repo') = ViewOf(repo) ]_vars

\* C15: the event a local mutation emits carries a timestamp above the Lamport
\* clock the replica had before the emit.  A step that reads the wall clock is
\* a local mutation, and its event is the last of the log.
C15_EmitAboveClock ==
    [][ now' # now =>
            repo'.log[Len(repo'.log)].LamportTimestamp > repo.currentLamportTimestamp ]_vars

(***************************************************************************)
(* SpecMerge: merge applied to every pair and triple of sorted logs.       *)
(***************************************************************************)
InitMerge ==
    /\ wal1 \in SortedWals
    /\ wal2 \in SortedWals
    /\ wal3 \in SortedWals
    /\ repo = Idle
    /\ peer = Idle
    /\ res = [ab |-> << >>, ba |-> << >>, abThenC |-> << >>, aThenBc |-> << >>]
    /\ pc = "start"
    /\ now = 0

Merge ==
    /\ pc = "start"
    /\ res' = [ab |-> merge(wal1, wal2),
               ba |-> merge(wal2, wal1),
               abThenC |-> merge(merge(wal1, wal2), wal3),
               aThenBc |-> merge(wal1, merge(wal2, wal3))]
    /\ pc' = "merged"
    /\ UNCHANGED <<now, repo, peer, wal1, wal2, wal3>>

NextMerge == Merge

SpecMerge == InitMerge /\ [][NextMerge]_vars

\* which path of merge a pair of logs takes
EitherEmpty == Len(wal1) = 0 \/ Len(wal2) = 0
FastPath1 == ~EitherEmpty /\ checkEquality(wal1[1], wal2[Len(wal2)]) = rightEventOlder
FastPath2 == ~EitherEmpty /\ ~FastPath1 /\ checkEquality(wal2[1], wal1[Len(wal1)]) = rightEventOlder
TwoPointer == ~EitherEmpty /\ ~FastPath1 /\ ~FastPath2

\* C7: the merge of two sorted duplicate free logs is strictly increasing
\* under checkEquality, whichever path merge takes.
C7_MergeStrictlyIncreasing ==
    pc = "merged" => IsStrictlyIncreasing(res.ab)

\* C7 witness: the two pointer loop ran on logs that share an event and
\* interleave.
C7_Witness ==
    /\ pc = "merged"
    /\ TwoPointer
    /\ Identities(wal1) \cap Identities(wal2) # {}
    /\ Identities(wal1) \ Identities(wal2) # {}
    /\ Identities(wal2) \ Identities(wal1) # {}
    /\ Len(res.ab) >= 3

\* C8: merge is the set union by identity: every event of either log is in
\* the result exactly once and nothing else is.
C8_MergeIsUnion ==
    pc = "merged" =>
        /\ Identities(res.ab) = Identities(wal1) \cup Identities(wal2)
        /\ Len(res.ab) = Cardinality(Identities(wal1) \cup Identities(wal2))
        /\ Range(res.ab) \subseteq Range(wal1) \cup Range(wal2)

\* C8 witness: an event present in both logs, each log with an event of its
\* own, merged by the two pointer loop.
C8_Witness ==
    /\ pc = "merged"
    /\ TwoPointer
    /\ Cardinality(Identities(wal1) \cap Identities(wal2)) >= 1
    /\ Cardinality(Identities(wal1) \cup Identities(wal2)) >= 4
    /\ Len(res.ab) = Cardinality(Identities(wal1) \cup Identities(wal2))

\* C9: merge(A,B) and merge(B,A) are the same sequence of events.
C9_MergeCommutative ==
    pc = "merged" => SameEvents(res.ab, res.ba)

\* C9 witness: a fast path one way round, logs of different events.
C9_Witness ==
    /\ pc = "merged"
    /\ FastPath1
    /\ Len(wal1) >= 2
    /\ Len(wal2) >= 2
    /\ SameEvents(res.ab, res.ba)

\* C10: merge(merge(A,B),C) and merge(A,merge(B,C)) are the same sequence
\* of events.
C10_MergeAssociative ==
    pc = "merged" => SameEvents(res.abThenC, res.aThenBc)

\* C10 witness: three non-empty logs, pairwise different, that overlap.
C10_Witness ==
    /\ pc = "merged"
    /\ Len(wal1) >= 2 /\ Len(wal2) >= 2 /\ Len(wal3) >= 2
    /\ Identities(wal1) \cap Identities(wal2) # {}
    /\ Identities(wal2) \cap Identities(wal3) # {}
    /\ wal1 # wal2 /\ wal2 # wal3 /\ wal1 # wal3
    /\ SameEvents(res.abThenC, res.aThenBc)

(***************************************************************************)
(* SpecOrder: checkEquality on three events.                               *)
(***************************************************************************)
\* two events per identity, of different kind and content
OrderEvents ==
    MergeEvents \cup
    { Ev(u, l, UpdateEvent, Key(u, 1), NullKey, "b", NilNote) :
        u \in 1..MaxUUID, l \in 1..MaxLamport }

InitOrder ==
    /\ wal1 \in { <<e>> : e \in OrderEvents }
    /\ wal2 \in { <<e>> : e \in OrderEvents }
    /\ wal3 \in { <<e>> : e \in OrderEvents }
    /\ repo = Idle
    /\ peer = Idle
    /\ res = << >>
    /\ pc = "start"
    /\ now = 0

\* checkEquality on the pairs of the three events
Compare ==
    /\ pc = "start"
    /\ res' = [ab |-> checkEquality(wal1[1], wal2[1]),
               ba |-> checkEquality(wal2[1], wal1[1]),
               bc |-> checkEquality(wal2[1], wal3[1]),
               ac |-> checkEquality(wal1[1], wal3[1])]
    /\ pc' = "compared"
    /\ UNCHANGED <<repo, peer, wal1, wal2, wal3, now>>

NextOrder == Compare

SpecOrder == InitOrder /\ [][NextOrder]_vars

\* a is below b in the order by (LamportTimestamp, UUID)
Below(a, b) ==
    \/ a.LamportTimestamp < b.LamportTimestamp
    \/ /\ a.LamportTimestamp = b.LamportTimestamp
       /\ a.UUID < b.UUID

\* C11: checkEquality is a strict total order by (Lamport, replica id): it
\* returns one of the three results; leftEventOlder exactly when the first
\* event is below the second; eventsEqual exactly when both fields are equal;
\* leftEventOlder for (a, b) exactly when rightEventOlder for (b, a); and
\* leftEventOlder is transitive
C11_StrictTotalOrder ==
    pc = "compared" =>
        /\ res.ab \in {eventsEqual, leftEventOlder, rightEventOlder}
        /\ (res.ab = leftEventOlder) <=> Below(wal1[1], wal2[1])
        /\ (res.ab = eventsEqual) <=> EventKey(wal1[1]) = EventKey(wal2[1])
        /\ (res.ab = leftEventOlder) <=> (res.ba = rightEventOlder)
        /\ (res.ab = leftEventOlder /\ res.bc = leftEventOlder) => res.ac = leftEventOlder

\* three events in a chain, the first two tied on the Lamport timestamp
C11_Witness ==
    /\ pc = "compared"
    /\ res.ab = leftEventOlder
    /\ res.bc = leftEventOlder
    /\ wal1[1].LamportTimestamp = wal2[1].LamportTimestamp
    /\ res.ac = leftEventOlder

(***************************************************************************)
(* SpecCache: one replica is given the events of a history, in any order   *)
(* and any number of times.                                                *)
(***************************************************************************)
\* what an event of the history does: its kind, item key, target key and line
CacheContents ==
    { <<AddEvent, "1:1", NullKey, "a">>,
      <<AddEvent, "2:1", NullKey, "a">>,
      <<UpdateEvent, "1:1", NullKey, "b">>,
      <<UpdateEvent, "1:1", NullKey, "c">>,
      <<MoveUpEvent, "1:1", "2:1", "">>,
      <<HideEvent, "1:1", NullKey, "">>,
      <<ShowEvent, "1:1", NullKey, "">>,
      <<DeleteEvent, "1:1", NullKey, "">> }

\* the identities of a history: up to MaxEvents pairs of replica and time
CacheIdentities ==
    { I \in SUBSET ((1..MaxUUID) \X (1..MaxReplayLamport)) :
        Cardinality(I) \in 1..MaxEvents }

\* the histories: sorted logs with one event per identity
CacheHistories ==
    UNION { { SortedSeq({ Ev(id[1], id[2], f[id][1], f[id][2], f[id][3], f[id][4], NilNote) :
                            id \in I }) : f \in [I -> CacheContents] } :
            I \in CacheIdentities }

InitCache ==
    /\ wal1 \in CacheHistories
    /\ wal2 = << >>
    /\ wal3 = << >>
    /\ repo = NewRepo(LocalUUID)
    /\ peer = Idle
    /\ res = [seen |-> FALSE, stale |-> FALSE]
    /\ pc = "replay"
    /\ now = 0

\* the key of e in the cache of the last event per kind and item
Slot(e) == <<e.EventType, e.ListItemKey>>

\* the cache of r holds an event of the kind and item of e that e is not
\* newer than
Stale(r, e) ==
    /\ Slot(e) \in DOMAIN r.listItemProcessedEventLogTypeCache
    /\ checkEquality(r.listItemProcessedEventLogTypeCache[Slot(e)], e)
            \in {rightEventOlder, eventsEqual}

\* Replay of one event of the history; res tells what the caches held of it
\* beforehand
Deliver ==
    /\ \E i \in 1..Len(wal1) :
        /\ wal2' = <<wal1[i]>>
        /\ repo' = Replay(repo, <<wal1[i]>>)
        /\ res' = [seen |-> EventKey(wal1[i]) \in repo.processedEventLogCache,
                   stale |-> Stale(repo, wal1[i])]
    /\ UNCHANGED <<peer, wal1, wal3, pc, now>>

NextCache == Deliver

SpecCache == InitCache /\ [][NextCache]_vars

\* the list and the key index of r
Projection(r) == [Root |-> r.Root, items |-> r.items, listItemTracker |-> r.listItemTracker]

\* C12: the replay of an event whose identity was passed to replay before
\* leaves the list, the key index, the cache per kind and item and the
\* Lamport clock as they were
C12_AtMostOnce ==
    [][ res'.seen =>
            /\ Projection(repo') = Projection(repo)
            /\ repo'.listItemProcessedEventLogTypeCache = repo.listItemProcessedEventLogTypeCache
            /\ repo'.currentLamportTimestamp = repo.currentLamportTimestamp ]_vars

\* an event that changed the list at its first delivery has been delivered
\* again
C12_Witness ==
    /\ res.seen
    /\ Len(repo.items) > 0
    /\ wal2[1].EventType = AddEvent

\* the events of the history that r has been given
Seen(r) == { e \in Range(wal1) : EventKey(e) \in r.processedEventLogCache }

\* the cache per kind and item holds, for every event r has been given, an
\* event r has been given that the event is not newer than
GreatestSeen(r) ==
    \A e \in Seen(r) :
        /\ Slot(e) \in DOMAIN r.listItemProcessedEventLogTypeCache
        /\ r.listItemProcessedEventLogTypeCache[Slot(e)] \in Seen(r)
        /\ checkEquality(r.listItemProcessedEventLogTypeCache[Slot(e)], e)
                \in {rightEventOlder, eventsEqual}

\* C13: an event that is older than or equal to the cached event of its kind
\* and item leaves the list and the key index as they were; a newer event
\* takes its place in the cache; the cached event of a kind and item is the
\* greatest event of that kind and item given so far
C13_LastEventPerKindAndKey ==
    [][ /\ res'.stale => Projection(repo') = Projection(repo)
        /\ (Len(wal2') > 0 /\ ~res'.stale /\ ~res'.seen) =>
                repo'.listItemProcessedEventLogTypeCache[Slot(wal2'[1])] = wal2'[1]
        /\ GreatestSeen(repo') ]_vars

\* an Update arrives for the first time after a newer Update of the same item
C13_Witness ==
    /\ res.stale
    /\ ~res.seen
    /\ wal2[1].EventType = UpdateEvent
    /\ \E e \in Seen(repo) :
        /\ Slot(e) = Slot(wal2[1])
        /\ e.Line # wal2[1].Line
        /\ checkEquality(wal2[1], e) = leftEventOlder

\* C14: the Lamport clock of the replica never decreases, and it is at least
\* the Lamport timestamp of every event given to Replay, applied or skipped
C14_ClockCoversReplayed ==
    [][ /\ repo'.currentLamportTimestamp >= repo.currentLamportTimestamp
        /\ \A e \in Seen(repo') :
                repo'.currentLamportTimestamp >= e.LamportTimestamp ]_vars

\* an event below the clock was given to Replay for the first time and was
\* skipped by the cache per kind and item
C14_Witness ==
    /\ res.stale
    /\ ~res.seen
    /\ wal2[1].LamportTimestamp < repo.currentLamportTimestamp

(***************************************************************************)
(* SpecSync: push, pull and gather of one replica over its wal files.      *)
(***************************************************************************)
MaxBlobEvents == 4
MaxEmits == 2

gatherFileNumberThreshold == 10
latestWalSchemaID == 6

\* r.email, and the email of a friend some lines are shared with
OwnerEmail == "owner@fzn"
FriendEmail == "friend@fzn"

\* the wal files of the replica: the local directory, the web wal file of the
\* user (registerWeb adds it with full access) and the web wal file of a friend
LocalWalFile == [uuid |-> "local", web |-> FALSE]
OwnerWalFile == [uuid |-> OwnerEmail, web |-> TRUE]
FriendWalFile == [uuid |-> FriendEmail, web |-> TRUE]
allWalFiles == {LocalWalFile, OwnerWalFile, FriendWalFile}
syncWalFiles == {LocalWalFile, OwnerWalFile}
webWalFiles == {OwnerWalFile, FriendWalFile}

isSyncWalfile(wf) == wf \in syncWalFiles

\* r.walFileGen(walFileCategoryNotOwned)
notOwnedWalFiles == allWalFiles \ syncWalFiles

\* a nil *bytes.Buffer
nilByteWal == [schema |-> 0, body |-> << >>, intact |-> TRUE]

\* buildByteWal: the schema id, then the compressed encoding of the events
buildByteWal(el) == [schema |-> latestWalSchemaID, body |-> el, intact |-> TRUE]

\* buildFromFile: schemas 4, 5 and 6 are decoded whole, and a payload that
\* does not decode is an error; schema 3 is read event by event, and a payload
\* that ends early is no error; for schemas 1 and 2 getNextEventLogFromWalFile
\* has no case and returns an error; a schema the second switch has no case
\* for, and a file of no bytes, yield no events and no error
buildFromFile(b) ==
    IF b.schema \in {4, 5, latestWalSchemaID}
    THEN IF b.intact THEN [el |-> b.body, err |-> FALSE]
                     ELSE [el |-> << >>, err |-> TRUE]
    ELSE IF b.schema = 3
    THEN [el |-> IF b.intact THEN b.body ELSE << >>, err |-> FALSE]
    ELSE IF b.schema \in {1, 2}
    THEN [el |-> << >>, err |-> TRUE]
    ELSE [el |-> << >>, err |-> FALSE]

\* the hex md5 of the bytes, which names a blob: one name per content
md5(b) == [md5 |-> b]

\* EventLog.emailHasAccess
emailHasAccess(e, email) == email \in e.Friends.Emails

\* a push mutant: every event goes to every wal file
getMatchedWalNoFilter(r, el, wf) == el

\* DBListRepo.getMatchedWal
getMatchedWal(r, el, wf) ==
    IF ~wf.web \/ (r.email # "" /\ r.email = wf.uuid)
    THEN el
    ELSE SelectSeq(el, LAMBDA e : emailHasAccess(e, wf.uuid))

\* DBListRepo.setProcessedWalChecksum
setProcessedWalChecksum(r, checksum) ==
    [r EXCEPT !.processedWalChecksums = @ \cup {checksum}]

\* DBListRepo.isWalChecksumProcessed
isWalChecksumProcessed(r, checksum) == checksum \in r.processedWalChecksums

\* WalFile.Flush and WalFile.RemoveWals on the blobs of one wal file
Flush(store, byteWal, name) == (name :> byteWal) @@ store
RemoveWals(store, names) == [n \in (DOMAIN store) \ names |-> store[n]]

\* the first part of push: the bytes to write, nil for an empty filtered log
pushBytes(r, wf, el, byteWal) ==
    IF byteWal # nilByteWal THEN byteWal
    ELSE IF Len(getMatchedWal(r, el, wf)) = 0 THEN nilByteWal
    ELSE buildByteWal(getMatchedWal(r, el, wf))

\* the checksum "" that push returns when it writes nothing
noChecksum == [md5 |-> nilByteWal]

\* a push mutant: the checksum is not put into the processed set
pushMarkSkipped(r, b) == r

\* push up to the flush: the checksum of the bytes goes into the processed set
pushMark(r, b) ==
    IF b = nilByteWal THEN r ELSE setProcessedWalChecksum(r, md5(b))

\* push from the bytes on: the checksum is marked, then the bytes are flushed,
\* which succeeds (ok) or fails
pushWritten(r, stores, wf, b, ok) ==
    IF b = nilByteWal
    THEN [repo |-> r, stores |-> stores, checksum |-> noChecksum, err |-> FALSE,
          wrote |-> {}]
    ELSE [repo |-> pushMark(r, b),
          stores |-> IF ok THEN [stores EXCEPT ![wf.uuid] = Flush(@, b, md5(b))]
                           ELSE stores,
          checksum |-> md5(b), err |-> ~ok, wrote |-> {md5(b)}]

\* DBListRepo.push, run without interruption as pull runs it
push(r, stores, wf, el, byteWal, ok) ==
    pushWritten(r, stores, wf, pushBytes(r, wf, el, byteWal), ok)

\* what pull has gathered so far: the merged log, the names to acknowledge,
\* and what it listed, read, wrote and removed
NoPull ==
    [mergedWal |-> << >>, filenamesToAck |-> {}, listed |-> {}, read |-> {},
     wrote |-> {}, removed |-> {}, gathered |-> {}]

\* a pull mutant: every listed file is read, processed or not
readWalAlways(r, store, filename) ==
    buildFromFile(store[filename]) @@ [read |-> TRUE]

\* the inner loop body of pull for one file name: a processed file is not read
readWal(r, store, filename) ==
    IF isWalChecksumProcessed(r, filename)
    THEN [el |-> << >>, err |-> FALSE, read |-> FALSE]
    ELSE buildFromFile(store[filename]) @@ [read |-> TRUE]

\* the files of one wal file: a file that fails to decode is left out of
\* walfileChan, the others are merged and noted for deletion
RECURSIVE pullFiles(_, _, _, _)
pullFile(r, store, rest, w, filename, l) ==
    pullFiles(r, store, rest,
              IF l.err
              THEN [w EXCEPT !.read = @ \cup {filename}]
              ELSE [wal |-> merge(w.wal, l.el),
                    files |-> w.files \cup {filename},
                    read |-> w.read \cup (IF l.read THEN {filename} ELSE {})])

pullFiles(r, store, filenames, w) ==
    IF filenames = {} THEN w
    ELSE \* CHOOSE is the order in which the listing names the files
         LET filename == CHOOSE n \in filenames : TRUE
         IN pullFile(r, store, filenames \ {filename}, w, filename,
                     readWal(r, store, filename))

\* the pushes of one log to the wal files wfs, their errors ignored
RECURSIVE pushAll(_, _, _, _, _)
pushedAll(p, rest, el, ok) ==
    [pushAll(p.repo, p.stores, rest, el, ok) EXCEPT !.wrote = @ \cup p.wrote]

pushAll(r, stores, wfs, el, ok) ==
    IF wfs = {} THEN [repo |-> r, stores |-> stores, wrote |-> {}]
    ELSE LET wf == CHOOSE w \in wfs : TRUE
         IN pushedAll(push(r, stores, wf, el, nilByteWal, ok), wfs \ {wf}, el, ok)

RECURSIVE pullWalFiles(_, _, _, _, _)
\* the gather after its pushes to the wal files not owned: the files merged
\* are removed, but for the one just written
gatherRemoved(f, rest, acc, wf, w, checksum, oks) ==
    pullWalFiles(f.repo,
                 [f.stores EXCEPT ![wf.uuid] = RemoveWals(@, w.files \ {checksum})],
                 rest,
                 [acc EXCEPT !.wrote = @ \cup {checksum} \cup f.wrote,
                             !.removed = @ \cup {<<wf.uuid, n>> : n \in w.files \ {checksum}},
                             !.gathered = @ \cup {<<wf.uuid, checksum>>}],
                 oks)

\* a bug the gather could have: the merged files are removed although the
\* push has failed
gatherPushedRemoves(p, rest, acc, wf, w, walfileWal, oks) ==
    IF p.err
    THEN [repo |-> p.repo,
          stores |-> [p.stores EXCEPT ![wf.uuid] = RemoveWals(@, w.files \ {p.checksum})],
          wal |-> << >>, err |-> TRUE,
          obs |-> [acc EXCEPT !.wrote = @ \cup p.wrote]]
    ELSE gatherRemoved(pushAll(setProcessedWalChecksum(p.repo, p.checksum), p.stores,
                               notOwnedWalFiles, walfileWal, oks.other),
                       rest, acc, wf, w, p.checksum, oks)

\* the gather after its push to the wal file: an error ends the pull
gatherPushed(p, rest, acc, wf, w, walfileWal, oks) ==
    IF p.err
    THEN [repo |-> p.repo, stores |-> p.stores, wal |-> << >>, err |-> TRUE,
          obs |-> [acc EXCEPT !.wrote = @ \cup p.wrote]]
    ELSE gatherRemoved(pushAll(setProcessedWalChecksum(p.repo, p.checksum), p.stores,
                               notOwnedWalFiles, walfileWal, oks.other),
                       rest, acc, wf, w, p.checksum, oks)

\* a gather mutant: the local log is not merged into the gathered log
gatherLocalLogLeftOut(r, stores, rest, acc, wf, w, oks) ==
    gatherPushed(push(r, stores, wf, w.wal, nilByteWal, oks.own),
                 rest, acc, wf, w, w.wal, oks)

\* the gather of pull: the local log merged with the log of the wal file is
\* pushed to the wal file
gather(r, stores, rest, acc, wf, w, oks) ==
    gatherPushed(push(r, stores, wf, merge(r.log, w.wal), nilByteWal, oks.own),
                 rest, acc, wf, w, merge(r.log, w.wal), oks)

\* the outer loop body of pull for one wal file, after its files are merged
pullWalFile(r, stores, rest, acc, wf, w, oks) ==
    IF Cardinality(DOMAIN stores[wf.uuid]) > gatherFileNumberThreshold /\ isSyncWalfile(wf)
    THEN gather(r, stores, rest, acc, wf, w, oks)
    ELSE pullWalFiles(r, stores, rest, acc, oks)

\* the outer loop body of pull for one wal file and what was read from it
pullListed(r, stores, rest, acc, wf, w, oks) ==
    pullWalFile(r, stores, rest,
                [acc EXCEPT !.mergedWal = merge(@, w.wal),
                            !.filenamesToAck = @ \cup w.files,
                            !.listed = @ \cup DOMAIN stores[wf.uuid],
                            !.read = @ \cup w.read],
                wf, w, oks)

\* DBListRepo.pull over the wal files still to visit; oks tells which flushes
\* of a gather succeed
pullWalFiles(r, stores, walfiles, acc, oks) ==
    IF walfiles = {}
    THEN [repo |-> [r EXCEPT !.processedWalChecksums = @ \cup acc.filenamesToAck],
          stores |-> stores, wal |-> acc.mergedWal, err |-> FALSE, obs |-> acc]
    ELSE LET wf == CHOOSE w \in walfiles : TRUE
         IN pullListed(r, stores, walfiles \ {wf}, acc, wf,
                       pullFiles(r, stores[wf.uuid], DOMAIN stores[wf.uuid],
                                 [wal |-> << >>, files |-> {}, read |-> {}]),
                       oks)

\* DBListRepo.pull
pull(r, stores, walfiles, oks) == pullWalFiles(r, stores, walfiles, NoPull, oks)

\* the events of the peer that the blobs of the local directory hold: every
\* second one is shared with the friend
PeerEvent(k) ==
    [Ev(PeerUUID, k, AddEvent, Key(PeerUUID, k), NullKey, "r", NilNote)
        EXCEPT !.Friends.Emails = IF k % 2 = 0 THEN {FriendEmail} ELSE {}]

\* the logs of the blobs: one event, two events, and all of them
BlobLogs ==
    { <<PeerEvent(i)>> : i \in 1..MaxBlobEvents }
    \cup { <<PeerEvent(p[1]), PeerEvent(p[2])>> :
            p \in { q \in (1..MaxBlobEvents) \X (1..MaxBlobEvents) : q[1] < q[2] } }
    \cup { [i \in 1..MaxBlobEvents |-> PeerEvent(i)] }

\* a blob whose payload does not decode, such as a file partly uploaded
CorruptBlob == [schema |-> latestWalSchemaID, body |-> <<PeerEvent(1)>>, intact |-> FALSE]

Blobs == { buildByteWal(l) : l \in BlobLogs } \cup {CorruptBlob}

\* the files of a directory that holds the blobs B, each under its checksum
StoreOf(B) == [n \in { md5(b) : b \in B } |-> n.md5]

\* the blobs a local directory may lack: the one that does not decode and the
\* one of all events
OptionalBlobs ==
    {CorruptBlob, buildByteWal([i \in 1..MaxBlobEvents |-> PeerEvent(i)])}

\* the local directory holds no blob, or all blobs but some optional ones; the
\* web wal files are empty; nothing was pushed or pulled; the clock reads past
\* the events of the peer
InitSync ==
    /\ \E M \in (SUBSET OptionalBlobs) \cup {Blobs} :
        /\ peer = [u \in { wf.uuid : wf \in allWalFiles } |->
                        IF u = LocalWalFile.uuid THEN StoreOf(Blobs \ M) ELSE StoreOf({})]
    /\ repo = [NewRepo(LocalUUID) EXCEPT !.email = OwnerEmail]
    /\ wal1 = << >>
    /\ wal2 = << >>
    /\ wal3 = {}
    /\ res = [written |-> {}, ws |-> {}, pull |-> NoPull, cycle |-> "none"]
    /\ pc = "start"
    /\ now = MaxBlobEvents

\* what the sync loop does with the outcome p of a pull: a failed gather ends
\* the program, a log to replay goes to replayChan; the other loops start
\* once the log of the initial load is taken ("load")
Pulled(p, cycle, send) ==
    /\ repo' = p.repo
    /\ peer' = p.stores
    /\ res' = [res EXCEPT !.written = @ \cup p.obs.wrote, !.pull = p.obs, !.cycle = cycle]
    /\ IF p.err THEN pc' = "fatal" /\ wal2' = wal2
       ELSE IF send THEN pc' = (IF cycle = "initial" THEN "load" ELSE "send") /\ wal2' = <<p.wal>>
       ELSE pc' = "pull" /\ wal2' = wal2
    /\ UNCHANGED <<wal1, wal3, now>>

\* startSync: the initial load from the local wal file, sent to replayChan
InitialLoad ==
    /\ pc = "start"
    /\ \E own, other \in BOOLEAN :
        Pulled(pull(repo, peer, {LocalWalFile}, [own |-> own, other |-> other]),
               "initial", TRUE)

\* startSync, main sync event loop: one pull of the sync wal files, sent to
\* replayChan when it is not empty
PulledSync(p) == Pulled(p, "loop", Len(p.wal) > 0)

SyncPull ==
    /\ pc = "pull"
    /\ \E own, other \in BOOLEAN :
        PulledSync(pull(repo, peer, syncWalFiles, [own |-> own, other |-> other]))

\* Start: the main loop takes the log from replayChan and replays it
ReplayReceived ==
    /\ pc \in {"load", "send"}
    /\ repo' = Replay(repo, wal2[1])
    /\ wal2' = << >>
    /\ pc' = "pull"
    /\ UNCHANGED <<peer, wal1, wal3, res, now>>

\* the mutation API: the event goes to eventsChan, to the log and to the list
emit(r, el) == processEventLog([r EXCEPT !.log = Append(@, el)], el)

\* the messages the push loop writes to the websocket for one event
websocketMessages(r, e) ==
    { [Action |-> "wal", UUID |-> wf.uuid, Wal |-> buildByteWal(getMatchedWal(r, <<e>>, wf))] :
        wf \in { w \in webWalFiles : Len(getMatchedWal(r, <<e>>, w)) > 0 } }

\* a local Add, and the push loop, which runs once the initial load is sent,
\* taking the event from eventsChan: the web
\* is active, as it is once registerWeb has added the web wal file of the
\* user, so the event goes to the websocket; it joins the batch
Emitted(e) ==
    /\ repo' = emit(repo, e)
    /\ wal1' = Append(wal1, e)
    /\ res' = [res EXCEPT !.ws = websocketMessages(repo, e)]

\* the event of the local Add at time t: every second one is shared with the
\* friend
LocalEvent(t) ==
    [Ev(LocalUUID, t, AddEvent, Key(LocalUUID, t), NullKey, "a", NilNote)
        EXCEPT !.Friends.Emails = IF t % 2 = 0 THEN {FriendEmail} ELSE {}]

EmitEvent ==
    /\ pc \in {"pull", "send"}
    /\ now < MaxBlobEvents + MaxEmits
    /\ Emitted(LocalEvent(now + 1))
    /\ now' = now + 1
    /\ UNCHANGED <<peer, wal2, wal3, pc>>

\* a flushPartialWals mutant: every wal file gets the bytes of the whole batch
flushPartialWalsUnfiltered(wal) ==
    IF Len(wal) > 0
    THEN { [wf |-> wf, wal |-> wal, stage |-> "push", byteWal |-> buildByteWal(wal)] :
                wf \in allWalFiles }
    ELSE {}

\* flushPartialWals: one push per wal file is started, with the bytes of the
\* whole batch for the sync wal files
flushPartialWals(wal) ==
    IF Len(wal) > 0
    THEN { [wf |-> wf, wal |-> wal, stage |-> "push",
            byteWal |-> IF wf \in syncWalFiles THEN buildByteWal(wal) ELSE nilByteWal] :
                wf \in allWalFiles }
    ELSE {}

\* startSync, push loop: the timer fires and the batch is flushed; the pushes
\* of the batch before are over by then
PushTrigger ==
    /\ pc \in {"pull", "send"}
    /\ Len(wal1) > 0
    /\ wal3 = {}
    /\ wal3' = wal3 \cup flushPartialWals(wal1)
    /\ wal1' = << >>
    /\ UNCHANGED <<repo, peer, wal2, res, pc, now>>

\* startSync, push loop: the context is done, the batch is flushed and the
\* program ends when the pushes are over
Shutdown ==
    /\ pc \in {"pull", "send"}
    /\ Len(wal1) > 0
    /\ wal3 = {}
    /\ wal3' = wal3 \cup flushPartialWals(wal1)
    /\ wal1' = << >>
    /\ pc' = "done"
    /\ UNCHANGED <<repo, peer, wal2, res, now>>

\* push of a started goroutine up to the flush: nothing to write ends it
Marked(p, b) ==
    /\ repo' = pushMark(repo, b)
    /\ wal3' = (wal3 \ {p}) \cup
                 (IF b = nilByteWal THEN {}
                  ELSE {[p EXCEPT !.stage = "flush", !.byteWal = b]})

PushStart ==
    /\ pc # "fatal"
    /\ \E p \in wal3 :
        /\ p.stage = "push"
        /\ Marked(p, pushBytes(repo, p.wf, p.wal, p.byteWal))
    /\ UNCHANGED <<peer, wal1, wal2, res, pc, now>>

\* push of a started goroutine: the flush, which succeeds or fails
PushFlush ==
    /\ pc # "fatal"
    /\ \E p \in wal3, ok \in BOOLEAN :
        /\ p.stage = "flush"
        /\ peer' = IF ok THEN [peer EXCEPT ![p.wf.uuid] = Flush(@, p.byteWal, md5(p.byteWal))]
                         ELSE peer
        /\ res' = [res EXCEPT !.written = @ \cup {md5(p.byteWal)}]
        /\ wal3' = wal3 \ {p}
    /\ UNCHANGED <<repo, wal1, wal2, pc, now>>

\* the blob another replica writes into the local directory while this one
\* runs: the log of all events of the peer
UploadedBlob == buildByteWal([i \in 1..MaxBlobEvents |-> PeerEvent(i)])

\* WalFile.Flush of another replica on the shared local directory, seen from
\* this one: os.Create makes the file appear under its name before its bytes
\* are there (a read finds nothing, or bytes that do not decode), and Write
\* completes it
PeerFlush ==
    /\ pc \in {"start", "pull", "load", "send"}
    /\ \E b \in (IF md5(UploadedBlob) \in DOMAIN peer[LocalWalFile.uuid]
                 THEN {UploadedBlob}
                 ELSE {nilByteWal, [UploadedBlob EXCEPT !.intact = FALSE]}) :
          /\ md5(UploadedBlob) \in DOMAIN peer[LocalWalFile.uuid]
                => peer[LocalWalFile.uuid][md5(UploadedBlob)] # UploadedBlob
          /\ peer' = [peer EXCEPT ![LocalWalFile.uuid] = Flush(@, b, md5(UploadedBlob))]
    /\ UNCHANGED <<repo, wal1, wal2, wal3, res, pc, now>>

NextSync ==
    \/ InitialLoad
    \/ SyncPull
    \/ ReplayReceived
    \/ EmitEvent
    \/ PushTrigger
    \/ Shutdown
    \/ PushStart
    \/ PushFlush

SpecSync == InitSync /\ [][NextSync]_vars

\* C16: the processed set holds the checksum of every blob the replica has
\* handed to a flush, whether the flush succeeded or failed, of every blob a
\* push is about to flush, and of every blob in the web wal files, which only
\* this replica has written
C16_WrittenAreProcessed ==
    /\ res.written \subseteq repo.processedWalChecksums
    /\ \A p \in wal3 : p.stage = "flush" => md5(p.byteWal) \in repo.processedWalChecksums
    /\ \A wf \in webWalFiles : DOMAIN peer[wf.uuid] \subseteq repo.processedWalChecksums

\* a push is about to flush while the flush of another blob has failed, so
\* that no wal file holds it, and a third blob is in a web wal file
C16_Witness ==
    /\ \E p \in wal3 : p.stage = "flush"
    /\ \E n \in res.written : \A wf \in allWalFiles : n \notin DOMAIN peer[wf.uuid]
    /\ \E wf \in webWalFiles : DOMAIN peer[wf.uuid] # {}

\* a step of pull: the push loop, its pushes and the clock stand still
PullStep ==
    /\ pc \in {"start", "pull"}
    /\ UNCHANGED <<wal1, wal3, now>>
    /\ ~PeerFlush

\* C17: a pull reads no file whose name was in the processed set when it
\* began, hence none the replica has written, and a pull of the sync loop that
\* lists only processed files has an empty log and sends nothing to replayChan
C17_PullSkipsProcessed ==
    [][ PullStep =>
          /\ res'.pull.read \cap repo.processedWalChecksums = {}
          /\ res'.pull.read \cap res.written = {}
          /\ (pc = "pull" /\ res'.pull.listed \subseteq repo.processedWalChecksums) =>
                /\ res'.pull.mergedWal = << >>
                /\ wal2' = wal2
                /\ pc' # "send" ]_vars

\* a pull of the sync loop has listed files, among them one the replica has
\* written, has read none and has sent nothing
C17_Witness ==
    /\ res.cycle = "loop"
    /\ res.pull.listed \cap res.written # {}
    /\ res.pull.read = {}
    /\ pc = "pull"
    /\ wal2 = << >>

\* the sorted log of the events of all files of a directory that decode
UnionLog(store) ==
    SortedSeq(UNION { Range(buildFromFile(store[n]).el) : n \in DOMAIN store })

\* the files of a directory that do not decode
Undecodable(store) == { n \in DOMAIN store : buildFromFile(store[n]).err }

\* a step of pull that ends without error and has listed more than the
\* threshold of files in the sync wal file u
GatherStep(u) ==
    /\ PullStep
    /\ pc' # "fatal"
    /\ u \in (IF pc = "start" THEN {LocalWalFile.uuid} ELSE { wf.uuid : wf \in syncWalFiles })
    /\ Cardinality(DOMAIN peer[u]) > gatherFileNumberThreshold

\* the blob named n of the sync wal file u after a gather: it is named by its
\* checksum, decodes to the merge of the local log and the listed files, and
\* is processed
Gathered(u, n) ==
    /\ n \in DOMAIN peer'[u]
    /\ n = md5(peer'[u][n])
    /\ ~buildFromFile(peer'[u][n]).err
    /\ buildFromFile(peer'[u][n]).el = merge(repo.log, UnionLog(peer[u]))
    /\ n \in repo'.processedWalChecksums

StoredEvents(store) == UNION { Range(store[n].body) : n \in DOMAIN store }

\* the web wal files of other users
PeerWalFiles == { wf \in allWalFiles : wf.web /\ wf.uuid # repo.email }

\* C19: whatever reaches the web wal file of another user, as a blob of a
\* batch push, of a gather or of the flush at shutdown, as the bytes a push is
\* about to flush, or as a websocket message, holds only events whose friends
\* include that user; a push to the local wal file or to the web wal file of
\* the user flushes its whole batch, and the websocket message to the user
\* holds the event whatever its friends
C19_AccessFilter ==
    /\ \A wf \in PeerWalFiles :
        /\ \A e \in StoredEvents(peer[wf.uuid]) : wf.uuid \in e.Friends.Emails
        /\ \A p \in wal3 : (p.wf = wf /\ p.stage = "flush") =>
                \A e \in Range(p.byteWal.body) : wf.uuid \in e.Friends.Emails
        /\ \A m \in res.ws : m.UUID = wf.uuid =>
                \A e \in Range(m.Wal.body) : wf.uuid \in e.Friends.Emails
    /\ \A wf \in allWalFiles \ PeerWalFiles :
        /\ \A p \in wal3 : (p.wf = wf /\ p.stage = "flush") => p.byteWal.body = p.wal
        /\ (wf.web /\ Len(repo.log) > 0 /\ repo.log[Len(repo.log)].UUID = LocalUUID) =>
                \E m \in res.ws : m.UUID = wf.uuid /\ m.Wal.body = <<repo.log[Len(repo.log)]>>

\* the program is shutting down; the web wal file of the friend holds a local
\* event and a peer event, the local wal file holds a local event the friend
\* has no access to, and the last event went to the websocket of the friend
C19_Witness ==
    /\ pc = "done"
    /\ \E e \in StoredEvents(peer[FriendEmail]) : e.UUID = LocalUUID
    /\ \E e \in StoredEvents(peer[FriendEmail]) : e.UUID = PeerUUID
    /\ \E e \in StoredEvents(peer[LocalWalFile.uuid]) :
            e.UUID = LocalUUID /\ FriendEmail \notin e.Friends.Emails
    /\ \E m \in res.ws : m.UUID = FriendEmail

\* a step of the push loop in which the timer fires on a batch
TriggerStep ==
    /\ Len(wal1) > 0
    /\ wal1' = << >>
    /\ pc' = pc

C22_FailedBatchPushedAgain ==
    [][ TriggerStep =>
          \A p \in wal3' \ wal3 : p.wf \in syncWalFiles =>
              \A e \in Range(repo.log) :
                  (e.UUID = LocalUUID /\ e \notin StoredEvents(peer[p.wf.uuid]))
                      => e \in Range(p.byteWal.body) ]_vars

(***************************************************************************)
(* SpecShutdown: the exit of the program, from the request of the client   *)
(* to finish.                                                              *)
(***************************************************************************)
\* the sync loops run, the local wal file holds one blob, nothing is emitted
InitShutdown ==
    /\ peer = [u \in { wf.uuid : wf \in allWalFiles } |->
                    IF u = LocalWalFile.uuid
                    THEN StoreOf({buildByteWal(<<PeerEvent(1)>>)}) ELSE StoreOf({})]
    /\ repo = [NewRepo(LocalUUID) EXCEPT !.email = OwnerEmail]
    /\ wal1 = << >>
    /\ wal2 = << >>
    /\ wal3 = {}
    /\ res = [written |-> {}, ws |-> {}, isPurge |-> FALSE, final |-> << >>]
    /\ pc = "pull"
    /\ now = MaxBlobEvents

\* Start: HandleEvent returns an error, which may be FinishWithPurgeError; the
\* context is cancelled and Start waits for the push loop
HandleExit ==
    /\ pc = "pull"
    /\ \E isPurge \in BOOLEAN : res' = [res EXCEPT !.isPurge = isPurge]
    /\ pc' = "cancelled"
    /\ UNCHANGED <<repo, peer, wal1, wal2, wal3, now>>

\* startSync, push loop, case <-ctx.Done(): flushPartialWals with
\* waitForCompletion; with an empty batch it returns at once and the loop
\* signals that it has stopped
FinalFlush ==
    /\ pc = "cancelled"
    /\ wal3' = wal3 \cup flushPartialWals(wal1)
    /\ wal1' = << >>
    /\ res' = [res EXCEPT !.final = wal1]
    /\ pc' = IF Len(wal1) > 0 THEN "flushing" ELSE "signalled"
    /\ UNCHANGED <<repo, peer, wal2, now>>

\* flushPartialWals with waitForCompletion: the pushes of the batch are over,
\* wg.Wait returns and os.Exit(0) ends the program
ExitAfterFlush ==
    /\ pc = "flushing"
    /\ \A p \in wal3 : p.wal # res.final
    /\ pc' = "exited"
    /\ UNCHANGED <<repo, peer, wal1, wal2, wal3, res, now>>

\* finish without purge, after its push of the whole log to the local wal
\* file: the other local files are removed
finished(p) ==
    /\ repo' = p.repo
    /\ peer' = IF p.err THEN p.stores
               ELSE [p.stores EXCEPT ![LocalWalFile.uuid] =
                        RemoveWals(@, (DOMAIN @) \ {p.checksum})]
    /\ res' = [res EXCEPT !.written = @ \cup p.wrote]

\* Start after the push loop has signalled: finish, which purges the local
\* wal file and exits when the exit is a purge
Finish ==
    /\ pc = "signalled"
    /\ IF res.isPurge
       THEN /\ peer' = [peer EXCEPT ![LocalWalFile.uuid] = StoreOf({})]
            /\ pc' = "purged"
            /\ UNCHANGED <<repo, res>>
       ELSE /\ \E ok \in BOOLEAN :
                 finished(push(repo, peer, LocalWalFile, repo.log, nilByteWal, ok))
            /\ pc' = "finished"
    /\ UNCHANGED <<wal1, wal2, wal3, now>>

\* the program has not ended
Running == pc \in {"pull", "cancelled", "flushing", "signalled"}

\* the pushes go on until the program ends
RunningPushStart == Running /\ PushStart
RunningPushFlush == Running /\ PushFlush

NextShutdown ==
    \/ EmitEvent
    \/ PushTrigger
    \/ RunningPushStart
    \/ RunningPushFlush
    \/ HandleExit
    \/ FinalFlush
    \/ ExitAfterFlush
    \/ Finish

SpecShutdown == InitShutdown /\ [][NextShutdown]_vars /\ WF_vars(NextShutdown)

\* C21: after an exit that asks for a purge, the local wal file is purged
C21_PurgeAfterExit ==
    (pc = "cancelled" /\ res.isPurge) ~> (pc = "purged")

(***************************************************************************)
(* SpecSelector: the goroutine of Start that takes the logs to replay and  *)
(* the input events, and the goroutines that send to it.  A Replay is one  *)
(* step per event so that what runs beside it can be seen.                 *)
(*   wal3  the sends blocked on replayChan, one goroutine each             *)
(*   wal2  the log the Replay in progress was given                        *)
(*   wal1  the events of it that are still to be applied                   *)
(*   res   the sends blocked on inputEvtsChan and, for the properties,     *)
(*         the goroutines that are inside Replay                           *)
(*   pc    where the selector goroutine is                                 *)
(*   now   the number of events the client has emitted                     *)
(***************************************************************************)
\* the sends of one sender that may be blocked on a channel at a time
MaxInFlight == 1

\* the logs the sync loop pulls and the peer sends: one or two events of the peer
SelectorWals == { <<PeerEvent(1)>>, <<PeerEvent(2)>>, <<PeerEvent(1), PeerEvent(2)>> }

\* the sends of a sender blocked on replayChan
InFlight(from) == { m \in wal3 : m.from = from }

InitSelector ==
    /\ repo = NewRepo(LocalUUID)
    /\ peer = Idle
    /\ wal1 = << >>
    /\ wal2 = << >>
    /\ wal3 = {}
    /\ res = [inputs |-> {}, replaying |-> {}]
    /\ pc = "select"
    /\ now = 0

\* the sync loop of startSync: a pull that returned events blocks on the send
\* to replayChan
SyncSend ==
    /\ InFlight("sync") = {}
    /\ \E w \in SelectorWals :
          wal3' = wal3 \cup {[from |-> "sync", name |-> "", wal |-> w]}
    /\ UNCHANGED <<repo, peer, wal1, wal2, res, pc, now>>

\* a bug the peer consumer could have: it applies the log it received itself,
\* one event per step, instead of sending it to replayChan
PeerConsumeReplays ==
    /\ \E w \in IF InFlight("peer") = {} THEN SelectorWals
                ELSE { m.wal : m \in InFlight("peer") } :
          /\ repo' = IF Len(w) = 1
                     THEN [processEventLog(repo, w[1]) EXCEPT !.log = merge(@, <<w[1]>>)]
                     ELSE processEventLog(repo, w[1])
          /\ wal3' = IF Len(w) = 1 THEN wal3 \ InFlight("peer")
                     ELSE (wal3 \ InFlight("peer"))
                            \cup {[from |-> "peer", name |-> "", wal |-> Tail(w)]}
          /\ res' = [res EXCEPT !.replaying = IF Len(w) = 1 THEN @ \ {"peer"}
                                             ELSE @ \cup {"peer"}]
    /\ UNCHANGED <<peer, wal1, wal2, pc, now>>

\* the websocket consumer of startSync: each log received gets a goroutine
\* that blocks on the send to replayChan
PeerConsume ==
    /\ Cardinality(InFlight("peer")) < MaxInFlight
    /\ \E w \in SelectorWals :
          wal3' = wal3 \cup {[from |-> "peer", name |-> "", wal |-> w]}
    /\ UNCHANGED <<repo, peer, wal1, wal2, res, pc, now>>

\* the input goroutine of Start: each event of client.AwaitEvent gets a
\* goroutine that blocks on the send to inputEvtsChan
AwaitEvent ==
    /\ "key" \notin res.inputs
    /\ res' = [res EXCEPT !.inputs = @ \cup {"key"}]
    /\ UNCHANGED <<repo, peer, wal1, wal2, wal3, pc, now>>

\* case n := <-replayChan: the selector enters Replay.  The logs sent are not
\* empty: the sync loop tests len(el) > 0 and the consumer len(wsEl) > 0.
SelectReplay ==
    /\ pc = "select"
    /\ \E m \in wal3 :
          /\ wal3' = wal3 \ {m}
          /\ wal2' = m.wal
          /\ wal1' = m.wal
    /\ res' = [res EXCEPT !.replaying = @ \cup {"selector"}]
    /\ pc' = "replay"
    /\ UNCHANGED <<repo, peer, now>>

\* one turn of the loop of Replay; after the last event the log is merged,
\* Replay returns and a goroutine is left to send the RefreshKey.  The logs
\* carry no name, so no checksum is marked.
ReplayStep ==
    /\ pc = "replay"
    /\ repo' = IF Len(wal1) = 1
               THEN [processEventLog(repo, Head(wal1)) EXCEPT !.log = merge(@, wal2)]
               ELSE processEventLog(repo, Head(wal1))
    /\ wal1' = Tail(wal1)
    /\ wal2' = IF Len(wal1) = 1 THEN << >> ELSE wal2
    /\ res' = IF Len(wal1) = 1
              THEN [res EXCEPT !.replaying = @ \ {"selector"},
                               !.inputs = @ \cup {"refresh"}]
              ELSE res
    /\ pc' = IF Len(wal1) = 1 THEN "select" ELSE "replay"
    /\ UNCHANGED <<peer, wal3, now>>

\* case ev := <-inputEvtsChan: client.HandleEvent(ev).  A key press makes the
\* client call the mutation API, a RefreshKey makes it read the list; on an
\* error the selector leaves its loop.
HandleEvent ==
    /\ pc = "select"
    /\ \E ev \in res.inputs, err \in BOOLEAN :
          /\ res' = [res EXCEPT !.inputs = @ \ {ev}]
          /\ IF ev = "key" /\ now < MaxEmits /\ ~err
             THEN /\ repo' = emit(repo, LocalEvent(now + 1))
                  /\ now' = now + 1
             ELSE UNCHANGED <<repo, now>>
          /\ pc' = IF err THEN "done" ELSE "select"
    /\ UNCHANGED <<peer, wal1, wal2, wal3>>

NextSelector ==
    \/ SyncSend
    \/ PeerConsume
    \/ AwaitEvent
    \/ SelectReplay
    \/ ReplayStep
    \/ HandleEvent

SpecSelector == InitSelector /\ [][NextSelector]_vars

\* the step takes an input event from inputEvtsChan: it is HandleEvent
HandleStep == res'.inputs # res.inputs /\ res'.inputs \subseteq res.inputs

\* C29: no two goroutines are inside Replay at a time, and HandleEvent runs
\* only while no goroutine is inside Replay: no event of a log in replay is
\* left to apply, and every event applied to the list is in the log.
C29_ReplayAndInputSerialised ==
    /\ [](Cardinality(res.replaying) <= 1)
    /\ [][ HandleStep
             => /\ res.replaying = {}
                /\ wal1 = << >>
                /\ repo.processedEventLogCache \subseteq Identities(repo.log) ]_vars

\* HandleEvent has emitted an event of the client after a Replay of two events
\* has ended, while a send of the peer waits on replayChan
C29_Witness ==
    /\ now > 0
    /\ pc = "select"
    /\ Len(repo.log) >= 3
    /\ InFlight("peer") # {}
    /\ res.replaying = {}

(***************************************************************************)
(* SpecUpload: the sync loop on a local directory that other replicas     *)
(* write to: it holds one blob of some schema, and the blob of all events *)
(* of the peer is being written.                                           *)
(***************************************************************************)

\* blobs of every schema id, from none (0) to one past the latest
SchemaBlobs ==
    { [schema |-> k, body |-> <<PeerEvent(1)>>, intact |-> TRUE] :
        k \in 0..(latestWalSchemaID + 1) }

InitUpload ==
    /\ \E b \in SchemaBlobs :
        peer = [u \in { wf.uuid : wf \in allWalFiles } |->
                    IF u = LocalWalFile.uuid THEN StoreOf({b}) ELSE StoreOf({})]
    /\ repo = [NewRepo(LocalUUID) EXCEPT !.email = OwnerEmail]
    /\ wal1 = << >>
    /\ wal2 = << >>
    /\ wal3 = {}
    /\ res = [written |-> {}, ws |-> {}, pull |-> NoPull, cycle |-> "none"]
    /\ pc = "start"
    /\ now = MaxBlobEvents

NextUpload ==
    \/ InitialLoad
    \/ SyncPull
    \/ ReplayReceived
    \/ EmitEvent
    \/ PushTrigger
    \/ Shutdown
    \/ PushStart
    \/ PushFlush
    \/ PeerFlush

SpecUpload == InitUpload /\ [][NextUpload]_vars

\* the events a pull step hands on: the log it sends to replayChan
SentToReplay == IF wal2' = << >> THEN {} ELSE Range(wal2'[1])

\* the local directory holds the uploaded blob with all its bytes
UploadComplete ==
    /\ md5(UploadedBlob) \in DOMAIN peer[LocalWalFile.uuid]
    /\ peer[LocalWalFile.uuid][md5(UploadedBlob)] = UploadedBlob

\* C31: a blob read while it is truncated is not lost: after a pull that
\* lists the blob with all its bytes and does not fail, every event of the
\* blob is in the log of the replica or in the log sent to replay
C31_TruncatedBlobNotLost ==
    [][ (PullStep /\ UploadComplete /\ pc' # "fatal") =>
            Range(UploadedBlob.body) \subseteq Range(repo'.log) \cup SentToReplay ]_vars

\* the files of the local directory that start with a schema id: all but a
\* file of no bytes
WithSchema(store) == { n \in DOMAIN store : store[n] # nilByteWal }

\* C32: a blob whose schema id is none of 1..6 fails to decode, and a pull
\* that lists it does not add its name to the processed set; a blob of schema
\* 1..6 whose bytes are all there decodes without error
C32_UnknownSchemaRejected ==
    [][ PullStep =>
          \A n \in WithSchema(peer[LocalWalFile.uuid]) :
             /\ peer[LocalWalFile.uuid][n].schema \notin 1..latestWalSchemaID =>
                   /\ buildFromFile(peer[LocalWalFile.uuid][n]).err
                   /\ n \notin repo'.processedWalChecksums
             /\ (/\ peer[LocalWalFile.uuid][n].schema \in 1..latestWalSchemaID
                 /\ peer[LocalWalFile.uuid][n].intact) =>
                   ~buildFromFile(peer[LocalWalFile.uuid][n]).err ]_vars

(***************************************************************************)
(* SpecFriends: one replica of an owner with an email replays events that  *)
(* carry friends and notes.                                                *)
(***************************************************************************)
\* the events: an Add of item "1:1" with or without a note and a friend, an
\* Add of item "2:1", Updates of the line of "1:1" with no friends, with the
\* owner, and with the owner and a guest, an Update of its note and a Hide
FriendEvents ==
    LET contents ==
            { <<AddEvent, "1:1", "a", n, f>> :
                n \in {NilNote, <<"n">>}, f \in {{}, {FriendEmail}} }
            \cup { <<AddEvent, "2:1", "a", NilNote, {}>> }
            \cup { <<UpdateEvent, "1:1", "b", NilNote, f>> :
                    f \in {{}, {OwnerEmail}, {OwnerEmail, "guest@fzn"}} }
            \cup { <<UpdateEvent, "1:1", "", <<"m">>, {}>>,
                   <<HideEvent, "1:1", "", NilNote, {}>> }
    IN { [Ev(u, l, c[1], c[2], NullKey, c[3], c[4]) EXCEPT !.Friends.Emails = c[5]] :
            u \in 1..MaxUUID, l \in 1..MaxReplayLamport, c \in contents }

InitFriends ==
    /\ repo = [NewRepo(LocalUUID) EXCEPT !.email = OwnerEmail]
    /\ peer = Idle
    /\ wal1 = << >>
    /\ wal2 = << >>
    /\ wal3 = << >>
    /\ res = << >>
    /\ pc = "replay"
    /\ now = 0

\* Replay of a one event log
ReplayFriends ==
    /\ \E e \in FriendEvents :
        /\ Deliverable(repo, e)
        /\ wal2' = <<e>>
        /\ repo' = Replay(repo, <<e>>)
    /\ UNCHANGED <<now, peer, wal1, wal3, res, pc>>

NextFriends == ReplayFriends

SpecFriends == InitFriends /\ [][NextFriends]_vars

\* item i is as it was but for the fields in `fields`
SameBut(i, fields) ==
    /\ "rawLine" \in fields \/ repo'.items[i].rawLine = repo.items[i].rawLine
    /\ "friends" \in fields \/ repo'.items[i].friends = repo.items[i].friends
    /\ "Note" \in fields \/ repo'.items[i].Note = repo.items[i].Note
    /\ repo'.items[i].IsHidden = repo.items[i].IsHidden
    /\ repo'.items[i].key = repo.items[i].key
    /\ repo'.Root = repo.Root
    /\ ListOf(repo') = ListOf(repo)
    /\ \A j \in (1..Len(repo.items)) \ {i} : repo'.items[j] = repo.items[j]

\* C35: an Update applied to a live item: with a line it sets the line and
\* the emails of the friends to the union of those of the item and of the
\* event without the email of the owner, and leaves the note, the hidden flag
\* and the list order; without a line it sets the note and leaves the line,
\* the friends, the hidden flag and the list order
C35_UpdateFrame ==
    [][ (OnLiveItem(UpdateEvent) /\ Applied) =>
          \A i \in {LiveItem(repo, wal2'[1].ListItemKey)} :
             IF wal2'[1].Line # ""
             THEN /\ repo'.items[i].rawLine = wal2'[1].Line
                  /\ repo'.items[i].friends.Emails =
                        (repo.items[i].friends.Emails \cup wal2'[1].Friends.Emails)
                            \ {OwnerEmail}
                  /\ SameBut(i, {"rawLine", "friends"})
             ELSE /\ repo'.items[i].Note = wal2'[1].Note
                  /\ SameBut(i, {"Note"}) ]_vars

\* the item of an Add with a note and a friend has got the line of an Update
\* whose friends are the owner and a guest: it has the friend and the guest
\* and still the note
C35_Witness ==
    /\ Len(wal2) = 1
    /\ wal2[1].EventType = UpdateEvent
    /\ wal2[1].Friends.Emails = {OwnerEmail, "guest@fzn"}
    /\ Tracked(repo, "1:1") # 0
    /\ repo.items[Tracked(repo, "1:1")].rawLine = "b"
    /\ repo.items[Tracked(repo, "1:1")].Note = <<"n">>
    /\ repo.items[Tracked(repo, "1:1")].friends.Emails = {FriendEmail, "guest@fzn"}

(***************************************************************************)
(* Moves in SpecReplay.                                                    *)
(***************************************************************************)
\* the event of the step has no target: its target key is absent from the
\* index or names a tombstone
NullTarget ==
    /\ Len(wal2') = 1
    /\ LiveItem(repo, wal2'[1].TargetListItemKey) = 0

MoveToTarget ==
    /\ (OnLiveItem(MoveUpEvent) \/ OnLiveItem(MoveDownEvent))
    /\ Applied
    /\ LiveItem(repo, wal2'[1].TargetListItemKey) # 0
    /\ LiveItem(repo, wal2'[1].TargetListItemKey) # LiveItem(repo, wal2'[1].ListItemKey)

InitGather ==
    /\ peer = [u \in { wf.uuid : wf \in allWalFiles } |->
                    IF u = LocalWalFile.uuid THEN StoreOf(Blobs \ OptionalBlobs)
                                             ELSE StoreOf({})]
    /\ repo = [NewRepo(LocalUUID) EXCEPT !.email = OwnerEmail]
    /\ wal1 = << >>
    /\ wal2 = << >>
    /\ wal3 = {}
    /\ res = [written |-> {}, ws |-> {}, pull |-> NoPull, cycle |-> "none"]
    /\ pc = "start"
    /\ now = MaxBlobEvents

\* startSync, main sync event loop: a pull of the sync wal files before the
\* Replay of the log sent last has written r.log.  A pull that has a log to
\* send waits in the send until Replay is over, and is not followed here.
SyncPullInReplay ==
    /\ pc \in {"load", "send"}
    /\ \E own, other \in BOOLEAN :
       \E p \in {pull(repo, peer, syncWalFiles, [own |-> own, other |-> other])} :
          /\ Len(p.wal) = 0
          /\ repo' = p.repo
          /\ peer' = p.stores
          /\ res' = [res EXCEPT !.written = @ \cup p.obs.wrote, !.pull = p.obs,
                                !.cycle = "loop"]
          /\ pc' = IF p.err THEN "fatal" ELSE pc
    /\ UNCHANGED <<wal1, wal2, wal3, now>>

NextGather ==
    \/ InitialLoad
    \/ SyncPull
    \/ ReplayReceived
    \/ EmitEvent
    \/ PushTrigger
    \/ Shutdown
    \/ PushStart
    \/ PushFlush
    \/ PeerFlush
    \/ SyncPullInReplay

SpecGather == InitGather /\ [][NextGather]_vars

\* a step of pull, before or while the log sent last is replayed
AnyPullStep ==
    \/ PullStep
    \/ /\ pc \in {"load", "send"}
       /\ pc' \in {pc, "fatal"}
       /\ UNCHANGED <<wal1, wal2, wal3, now>>
       /\ ~PeerFlush

\* the events of the blobs that the gathers of the step have written to the
\* wal file u
GatheredEvents(u) ==
    UNION { Range(buildFromFile(peer'[u][g[2]]).el) :
            g \in { h \in res'.pull.gathered : h[1] = u /\ h[2] \in DOMAIN peer'[u] } }

\* C38: every event of a blob that a gather removes from a sync wal file is
\* in the blob the gather has written to that wal file in the same pull
C38_GatherLosesNoEvent ==
    [][ AnyPullStep =>
          \A rm \in res'.pull.removed :
              Range(buildFromFile(peer[rm[1]][rm[2]]).el) \subseteq GatheredEvents(rm[1]) ]_vars

\* a step of pull that ends with the error of a gather whose push failed
FailedGatherStep ==
    /\ PullStep
    /\ pc' = "fatal"

\* the sync wal files that the pull of the step has not gathered: the one
\* whose push failed, and those it did not get to
NotGathered == { wf.uuid : wf \in syncWalFiles } \ { g[1] : g \in res'.pull.gathered }

\* C39: when the push of a gather fails, every file of that wal file is left
\* as it was, the pull sends no log to replay and leaves the local log, and no
\* name the pull has listed is added to the processed set
C39_FailedGatherKeepsBlobs ==
    [][ FailedGatherStep =>
          /\ \A u \in NotGathered :
                \A n \in DOMAIN peer[u] : n \in DOMAIN peer'[u] /\ peer'[u][n] = peer[u][n]
          /\ wal2' = wal2
          /\ repo'.log = repo.log
          /\ res'.pull.listed \cap repo'.processedWalChecksums
                \subseteq repo.processedWalChecksums ]_vars

\* C39, amended: when the push of a gather fails, every file of that wal file
\* is left as it was, the pull sends no log to replay and leaves the local
\* log, and no name the pull has listed is added to the processed set, but
\* for the checksum of the log the gather tried to write, which push adds
\* before the write
C39_FailedGatherMarksOwnChecksum ==
    [][ FailedGatherStep =>
          /\ \A u \in NotGathered :
                \A n \in DOMAIN peer[u] : n \in DOMAIN peer'[u] /\ peer'[u][n] = peer[u][n]
          /\ wal2' = wal2
          /\ repo'.log = repo.log
          /\ (res'.pull.listed \ res'.pull.wrote) \cap repo'.processedWalChecksums
                \subseteq repo.processedWalChecksums
          /\ res'.pull.wrote \subseteq repo'.processedWalChecksums ]_vars

\* the initial load has listed more files than the threshold, the push of its
\* gather has failed: the listed files are all there, none is processed, the
\* checksum of the log that was not written is
C39_Witness ==
    /\ pc = "fatal"
    /\ res.cycle = "initial"
    /\ Cardinality(res.pull.listed) > gatherFileNumberThreshold
    /\ res.pull.listed = DOMAIN peer[LocalWalFile.uuid]
    /\ res.pull.listed \cap repo.processedWalChecksums = {}
    /\ res.pull.gathered = {}
    /\ res.pull.wrote # {}
    /\ res.pull.wrote \subseteq repo.processedWalChecksums

(***************************************************************************)
(* SpecBackoff: the loop of startSync that refreshes the web connection.   *)
(* Durations are in seconds.  res.ticker is the period webRefreshTicker    *)
(* was last reset to, res.failures the attempts that failed in a row.      *)
(***************************************************************************)
MaxRefresh == 10
MaxFailures == 6

\* startSync up to the loop: the ticker is reset to 0 and the backoff is one
\* second; webRefreshInterval is some period
InitBackoff ==
    /\ \E period \in 1..MaxRefresh :
        res = [webRefreshInterval |-> period, expBackoffInterval |-> 1,
               waitInterval |-> 0, ticker |-> 0, isActive |-> FALSE,
               failures |-> 0, last |-> "none"]
    /\ repo = Idle
    /\ peer = Idle
    /\ wal1 = << >>
    /\ wal2 = << >>
    /\ wal3 = << >>
    /\ pc = "refresh"
    /\ now = 0

\* case <-webRefreshTicker.C, for each outcome of registerWeb
RefreshWeb ==
    /\ pc = "refresh"
    /\ res.failures < MaxFailures
    /\ \E err \in {"nil", "authFailureError", "error"} :
        IF err = "authFailureError"
        THEN /\ res' = [res EXCEPT !.isActive = FALSE, !.last = "auth"]
             /\ pc' = "done"
        ELSE IF err = "error"
        THEN /\ res' = [res EXCEPT
                    !.isActive = FALSE,
                    !.waitInterval = res.expBackoffInterval,
                    !.expBackoffInterval =
                        IF @ < res.webRefreshInterval THEN @ * 2 ELSE @,
                    !.ticker = res.expBackoffInterval,
                    !.failures = @ + 1,
                    !.last = "failed"]
             /\ pc' = pc
        ELSE /\ res' = [res EXCEPT
                    !.isActive = TRUE,
                    !.expBackoffInterval = 1,
                    !.waitInterval = res.webRefreshInterval,
                    !.ticker = res.webRefreshInterval,
                    !.failures = 0,
                    !.last = "ok"]
             /\ pc' = pc
    /\ UNCHANGED <<repo, peer, wal1, wal2, wal3, now>>

\* case <-webPingTicker.C with a ping that fails on an active connection
PingFailed ==
    /\ pc = "refresh"
    /\ res.isActive
    /\ res' = [res EXCEPT !.isActive = FALSE, !.ticker = 0, !.last = "ping"]
    /\ UNCHANGED <<repo, peer, wal1, wal2, wal3, pc, now>>

NextBackoff ==
    \/ RefreshWeb
    \/ PingFailed

SpecBackoff == InitBackoff /\ [][NextBackoff]_vars

\* C40: after n attempts that failed in a row the ticker is set to a wait that
\* is not longer than the refresh period, and to one second doubled n - 1
\* times as long as that is not longer than the period; after an attempt that
\* succeeded the backoff is one second and the ticker is set to the period
C40_BackoffWithinPeriod ==
    /\ res.last = "failed" =>
          /\ res.ticker <= res.webRefreshInterval
          /\ 2 ^ (res.failures - 1) <= res.webRefreshInterval =>
                res.ticker = 2 ^ (res.failures - 1)
    /\ res.last = "ok" =>
          /\ res.expBackoffInterval = 1
          /\ res.ticker = res.webRefreshInterval

====
